---- MODULE Spec2Model ----
(***************************************************************************)
(* ggwave-rs: the safe Session wrapper (GGWave, src/src/lib.rs) over the   *)
(* native ggwave engine and its async bridge (AsyncGGWave,                 *)
(* src/src/async_impl.rs).                                                 *)
(*                                                                         *)
(* A call of the wrapper is a frame that runs the code of the operation    *)
(* one native call at a time: a step either begins a native call or ends   *)
(* it and runs the local code up to the next native call.  A frame of kind *)
(* "sync" is a call of GGWave made by the owner of an unwrapped Session; a *)
(* frame of kind "bridge" is a call of AsyncGGWave whose blocking worker   *)
(* takes the Session's tokio Mutex before it runs the same GGWave code.    *)
(*                                                                         *)
(* The native engine is not part of the sources (build.rs fetches it); it  *)
(* is modelled at its boundary: a slot table, a per-slot transmit state    *)
(* that a native encode call sets when it begins and reads when it ends,   *)
(* a framed waveform, and a return code that is either the genuine value   *)
(* or a non-positive fault code.                                           *)
(***************************************************************************)
EXTENDS Integers, Sequences, FiniteSets, TLC

\* ---------------------------------------------------------------- constants
MAX_LENGTH_VARIABLE == 140
MAX_LENGTH_FIXED == 64
MIN_VOLUME == 0
MAX_VOLUME == 100
GGWAVE_MAX_INSTANCES == 4
AUDIBLE_NORMAL == 0
AUDIBLE_FAST == 1
CUSTOM_0 == 12
COUNT == 22
I16 == 4
F32 == 5

\* ------------------------------------------------------------------- bounds
MaxCreates == 2      \* constructor calls in one behaviour
MaxTextLen == 2      \* length of the short texts
MaxClones == 2       \* AsyncGGWave handles of one Session
MaxCalls == 2        \* calls started in one behaviour

\* the Sessions of one behaviour: enough to fill every native slot and go on
MaxSessions == GGWAVE_MAX_INSTANCES + MaxCreates

SessIds == 1..MaxSessions
FrameIds == 1..MaxCalls
Slots == 0..(GGWAVE_MAX_INSTANCES - 1)

\* ------------------------------------------------------------------ helpers
Min(a, b) == IF a < b THEN a ELSE b

Zeros(n) == [i \in 1..n |-> 0]

Fill(n, b) == [i \in 1..n |-> b]

\* the first n elements of q (a Rust slice q[..n])
Take(q, n) == SubSeq(q, 1, n)

\* q with its first Len(w) elements replaced by w (a write through a pointer)
Overwrite(q, w) == [i \in 1..Len(q) |-> IF i <= Len(w) THEN w[i] ELSE q[i]]

\* ------------------------------------------------------------------ results
NoRes == [tag |-> "none", err |-> "", code |-> 0, required |-> 0,
          provided |-> 0, n |-> 0, data |-> <<>>, some |-> FALSE]

OkN(k) == [NoRes EXCEPT !.tag = "Ok", !.n = k]

OkData(d) == [NoRes EXCEPT !.tag = "Ok", !.n = Len(d), !.data = d, !.some = TRUE]

OkNone == [NoRes EXCEPT !.tag = "Ok"]

EncodeFailed(c) == [NoRes EXCEPT !.tag = "Err", !.err = "EncodeFailed", !.code = c]

DecodeFailed(c) == [NoRes EXCEPT !.tag = "Err", !.err = "DecodeFailed", !.code = c]

BufferTooSmall(req, prov) == [NoRes EXCEPT !.tag = "Err", !.err = "BufferTooSmall",
                                           !.required = req, !.provided = prov]

TextTooLong(len, max) == [NoRes EXCEPT !.tag = "Err", !.err = "TextTooLong",
                                       !.required = max, !.provided = len]

Utf8Error == [NoRes EXCEPT !.tag = "Err", !.err = "Utf8Error"]

IoError == [NoRes EXCEPT !.tag = "Err", !.err = "IoError"]

InvalidParameter == [NoRes EXCEPT !.tag = "Err", !.err = "InvalidParameter"]

\* ------------------------------------------------------------ native engine
\* the library's default parameters: variable-length framing
DefaultParameters == [payloadLength |-> 0 - 1, sampleFormatOut |-> F32]

StartMarker(protocol) == 0 - (protocol + 1)

EndMarker == 0 - 100

\* one sample per payload byte: the byte as the tone, the volume as amplitude
Sample(b, volume) == b * (MAX_VOLUME + 1) + volume

Tone(s) == s \div (MAX_VOLUME + 1)

\* the waveform of a transmit state
Waveform(tx) ==
    <<StartMarker(tx.protocol)>> \o [i \in 1..Len(tx.text) |-> Sample(tx.text[i], tx.volume)]
        \o <<EndMarker>>

\* the native engine accepts a transmission: a payload and a volume in range
TxAccepted(tx) ==
    /\ Len(tx.text) > 0
    /\ tx.volume >= MIN_VOLUME
    /\ tx.volume <= MAX_VOLUME

\* non-positive codes the engine reports for a fault
NativeFaultCodes == {0 - 1, 0}

\* the return codes a native encode call (query or fill) can end with
EncodeCodes(tx) ==
    NativeFaultCodes \cup (IF TxAccepted(tx) THEN {Len(Waveform(tx))} ELSE {})

NoTx == [text |-> <<>>, protocol |-> 0, volume |-> 0]

FreeSlot == [used |-> FALSE, payloadLength |-> 0, sampleFormatOut |-> 0,
             tx |-> NoTx, rx |-> <<>>]

\* the protocol ids of the library
ProtocolIds == 0..(COUNT - 1)

\* the protocol tables of a process that has changed none of them: the
\* standard protocols are enabled, the custom ones are not, and no start
\* frequency is overridden
InitialTable ==
    [rx |-> [p \in ProtocolIds |-> p < CUSTOM_0],
     tx |-> [p \in ProtocolIds |-> p < CUSTOM_0],
     rxFreq |-> [p \in ProtocolIds |-> 0],
     txFreq |-> [p \in ProtocolIds |-> 0]]

\* ggwave_rxToggleProtocol / ggwave_txToggleProtocol: field dir ("rx" or "tx")
\* of the tables gets the flag of protocol p; an id outside the tables is
\* ignored
Toggled(tb, dir, p, state) ==
    CASE p \notin ProtocolIds -> tb
      [] dir = "rx" -> [tb EXCEPT !.rx[p] = (state # 0)]
      [] OTHER -> [tb EXCEPT !.tx[p] = (state # 0)]


\* the payload framed in a waveform, or <<>> when it holds no complete frame
Framed(w) ==
    /\ Len(w) >= 2
    /\ w[1] < 0
    /\ w[1] # EndMarker
    /\ w[Len(w)] = EndMarker
    /\ \A i \in 2..(Len(w) - 1) : w[i] > 0

Payload(w) == [i \in 1..(Len(w) - 2) |-> Tone(w[i + 1])]

\* the return codes a bounded decode (ggwave_ndecode) can end with
NDecodeCodes(w, cap) ==
    IF Framed(w)
    THEN (IF Len(Payload(w)) > cap THEN {0 - 2} ELSE {Len(Payload(w))})
    ELSE {0 - 1}

\* the streaming receiver: the samples kept after a chunk has been taken in
RxAfter(rx, chunk) ==
    LET all == rx \o chunk
    IN IF all = <<>> \/ all[1] >= 0 \/ all[1] = EndMarker THEN <<>>
       ELSE all

\* the return codes a streaming decode (ggwave_decode) can end with
DecodeCodes(rx) ==
    {0 - 1} \cup (IF Framed(rx) THEN {Len(Payload(rx))} ELSE {0})

\* ggwave_init: the lowest free slot, or -1 when every slot is taken
FreeSlots(sl) == {h \in Slots : ~sl[h].used}

NativeInit(sl) ==
    IF FreeSlots(sl) = {} THEN 0 - 1
    ELSE CHOOSE h \in FreeSlots(sl) : \A g \in FreeSlots(sl) : h <= g

\* ------------------------------------------------------------------ wrapper
\* Rust's str: the decoded bytes are text when every byte is ASCII
InvalidByte == 255

IsUtf8(bytes) == \A i \in 1..Len(bytes) : bytes[i] < 128

NoSession == [state |-> "none", instance |-> 0 - 1, wrapped |-> FALSE, refs |-> 0,
              bridges |-> 0, lock |-> 0, frees |-> 0, freedOn |-> "none"]

NoCtor == [ctor |-> "none", length |-> 0, async |-> FALSE, res |-> "none",
           inits |-> 0, used |-> 0, sess |-> 0]

FreeFrame == [kind |-> "free", op |-> "none", wop |-> "none", pc |-> "free", sess |-> 0,
              text |-> <<>>, protocol |-> 0, volume |-> 0, ubuf |-> <<>>, buf |-> <<>>,
              wave |-> <<>>, stage |-> 0, size |-> 0, res |-> NoRes, log |-> <<>>,
              holdsRef |-> FALSE, abandoned |-> FALSE, chained |-> FALSE,
              drift |-> FALSE, enabled |-> FALSE]

\* no background loop started: pc is where the loop stands, rx the state of
\* the MessageReceiver, queue the messages in the channel; lastRead, reads,
\* late (reads after the receiver was dropped), sent, got and last record what
\* happened, lastDecode what the last process_audio_chunk of the loop gave;
\* buffer and n are the loop's read buffer and the length of its last read,
\* read the bytes all reads gave and fed the chunks handed to the decoder;
\* for process_audio_stream pc is "cb_read", "cb_decode" or "returned",
\* called the payloads its callback was called with and result what it returned
NoStream == [pc |-> "none", sess |-> 0, cap |-> 0, queue |-> <<>>, rx |-> "none",
             frame |-> 0, msg |-> <<>>, cause |-> "none", lastRead |-> "none",
             lastDecode |-> "none", reads |-> 0, late |-> 0,
             buffer |-> <<>>, n |-> 0, read |-> <<>>, fed |-> <<>>, result |-> NoRes,
             called |-> <<>>,
             sent |-> <<>>, got |-> <<>>,
             last |-> [op |-> "none", some |-> FALSE, msg |-> <<>>]]

VARIABLES
    slots,      \* the native slot table: slot -> [used, payloadLength, tx, rx]
    sessions,   \* the GGWave objects: id -> [state, instance, wrapped, refs, ...]
    frames,     \* the calls: id -> frame
    lastCtor,   \* the constructor call just made, NoCtor once another call starts
    creates,    \* constructor calls made
    calls,      \* calls started
    stream,     \* the background loop, its channel and its MessageReceiver
    table       \* the process-wide protocol configuration of the native library

vars == <<slots, sessions, frames, lastCtor, creates, calls, stream, table>>

Init ==
    /\ slots = [h \in Slots |-> FreeSlot]
    /\ sessions = [s \in SessIds |-> NoSession]
    /\ frames = [f \in FrameIds |-> FreeFrame]
    /\ lastCtor = NoCtor
    /\ creates = 0
    /\ calls = 0
    /\ stream = NoStream
    /\ table = InitialTable


\* ------------------------------------------------------------------- inputs
DEFAULT_VOLUME == 50

\* the inputs of the calls that overlap in time
FewTexts == {<<1>>, <<2, 1>>}

\* texts of every length up to MaxTextLen, and one over the variable-length
\* maximum
Texts == {Fill(k, 1) : k \in 0..MaxTextLen} \cup FewTexts
            \cup {Fill(MAX_LENGTH_VARIABLE + 1, 1)}

Protocols == {AUDIBLE_NORMAL, AUDIBLE_FAST}

Volumes == {DEFAULT_VOLUME, MIN_VOLUME - DEFAULT_VOLUME}

\* the (protocol, volume) pairs of the encode calls: every protocol at the
\* default volume, and for GGWave a volume out of range
TxInputs(kind) ==
    {pv \in Protocols \X Volumes :
        \/ pv[2] = DEFAULT_VOLUME
        \/ kind = "sync" /\ pv[1] = AUDIBLE_NORMAL}

BufLens == {0} \cup (MaxTextLen + 1)..(MaxTextLen + 3)

Caps == 0..MaxTextLen

FewBufLens == {MaxTextLen, MaxTextLen + 2}

CtorLengths == {DefaultParameters.payloadLength, 1, MAX_LENGTH_FIXED + 1}

Ctors == {"new", "new_with_fixed_payload", "new_with_params", "builder", "builder_fixed"}

\* waveforms that no encode of this process produced
ForeignWaves ==
    {<<>>, <<Sample(1, DEFAULT_VOLUME)>>,
     <<StartMarker(AUDIBLE_NORMAL), Sample(InvalidByte, DEFAULT_VOLUME), EndMarker>>}

Chunks ==
    {<<StartMarker(AUDIBLE_NORMAL)>>, <<Sample(1, DEFAULT_VOLUME)>>, <<EndMarker>>,
     <<StartMarker(AUDIBLE_NORMAL), Sample(2, DEFAULT_VOLUME), EndMarker>>,
     <<Sample(InvalidByte, DEFAULT_VOLUME), EndMarker>>}

FewChunks ==
    {<<StartMarker(AUDIBLE_NORMAL)>>,
     <<StartMarker(AUDIBLE_NORMAL), Sample(2, DEFAULT_VOLUME), EndMarker>>}

\* ------------------------------------------------------------- constructors
\* the local validation of a fixed payload length
LengthOutOfRange(length) == length <= 0 \/ length > MAX_LENGTH_FIXED

\* what a constructor does before it reaches ggwave_init
CtorCheck(ctor, length) ==
    CASE ctor = "new_with_fixed_payload" /\ LengthOutOfRange(length) -> "InvalidParameter"
      [] ctor = "builder_fixed" /\ LengthOutOfRange(length) -> "panic"
      [] OTHER -> "init"

\* the payloadLength of the parameters a constructor hands to ggwave_init
CtorPayloadLength(ctor, length) ==
    IF ctor \in {"new", "builder"} THEN DefaultParameters.payloadLength ELSE length

\* the handles ggwave_init can return for these parameters
InitOutcomes(sl, payloadLength) ==
    IF payloadLength > MAX_LENGTH_FIXED THEN {0 - 1, NativeInit(sl)} ELSE {NativeInit(sl)}

UsedSlots(sl) == Cardinality({h \in Slots : sl[h].used})

NextSession == Cardinality({s \in SessIds : sessions[s].state # "none"}) + 1

ActiveFrame(fr) == fr.kind \in {"sync", "bridge"} /\ fr.pc # "done"

\* a constructor call that hands ggwave_init parameters with output sample
\* format `format`; the async constructors run the same code on a worker
Created(ctor, length, format, async, instance) ==
    /\ creates < MaxSessions
    /\ ctor \in {"new", "builder"} => length = DefaultParameters.payloadLength
    /\ creates' = creates + 1
    /\ UNCHANGED <<frames, calls, stream, table>>
    /\ IF CtorCheck(ctor, length) # "init"
       THEN /\ instance = 0 - 1
            /\ lastCtor' = [ctor |-> ctor, length |-> length, async |-> async,
                            res |-> CtorCheck(ctor, length), inits |-> 0,
                            used |-> UsedSlots(slots), sess |-> 0]
            /\ UNCHANGED <<slots, sessions>>
       ELSE /\ instance \in InitOutcomes(slots, CtorPayloadLength(ctor, length))
            /\ IF instance < 0
               THEN /\ lastCtor' = [ctor |-> ctor, length |-> length, async |-> async,
                                    res |-> "InitializationFailed", inits |-> 1,
                                    used |-> UsedSlots(slots), sess |-> 0]
                    /\ UNCHANGED <<slots, sessions>>
               ELSE /\ lastCtor' = [ctor |-> ctor, length |-> length, async |-> async,
                                    res |-> "Ok", inits |-> 1,
                                    used |-> UsedSlots(slots), sess |-> NextSession]
                    /\ slots' = [slots EXCEPT ![instance] =
                                    [FreeSlot EXCEPT !.used = TRUE,
                                        !.payloadLength = CtorPayloadLength(ctor, length),
                                        !.sampleFormatOut = format]]
                    /\ sessions' = [sessions EXCEPT ![NextSession] =
                                    [NoSession EXCEPT !.state = "live", !.instance = instance,
                                        !.wrapped = async, !.refs = 1,
                                        !.bridges = IF async THEN 1 ELSE 0]]

\* a constructor that leaves the library's output sample format alone
Create(ctor, length, async, instance) ==
    Created(ctor, length, DefaultParameters.sampleFormatOut, async, instance)

\* GGWaveBuilder / AsyncGGWaveBuilder: output_sample_format(format), then build
Build(format, async, instance) ==
    Created("builder", DefaultParameters.payloadLength, format, async, instance)

\* ------------------------------------------------------------------ owners
LastOwnerAny(refsLeft) == TRUE

\* the owner that lets go is the last one: the GGWave is dropped
LastOwner(refsLeft) == refsLeft = 0

\* one owner of session record sn lets go on `thread`; Drop calls ggwave_free
Released(sn, thread) ==
    IF LastOwner(sn.refs - 1)
    THEN [sn EXCEPT !.refs = @ - 1, !.state = "freed", !.frees = @ + 1, !.freedOn = thread]
    ELSE [sn EXCEPT !.refs = @ - 1]

SlotsAfterLeak(sn, after) == slots

\* the slot table after ggwave_free, when the release dropped the GGWave
SlotsAfter(sn, after) ==
    IF after.frees > sn.frees THEN [slots EXCEPT ![sn.instance] = FreeSlot] ELSE slots

\* the owner of an unwrapped Session drops it
DropSession(s) ==
    /\ sessions[s].state = "live"
    /\ ~sessions[s].wrapped
    /\ \A f \in FrameIds : ActiveFrame(frames[f]) => frames[f].sess # s
    /\ sessions' = [sessions EXCEPT ![s] = Released(@, "caller")]
    /\ slots' = SlotsAfter(sessions[s], sessions'[s])
    /\ UNCHANGED <<frames, lastCtor, creates, calls, stream, table>>

CloneCopies(s) ==
    /\ sessions[s].wrapped
    /\ sessions[s].bridges >= 1
    /\ sessions[s].bridges < MaxClones
    /\ NativeInit(slots) >= 0
    /\ sessions' = [sessions EXCEPT ![s].bridges = @ + 1, ![s].refs = @ + 1]
    /\ slots' = [slots EXCEPT ![NativeInit(slots)] =
                    [FreeSlot EXCEPT !.used = TRUE,
                        !.payloadLength = slots[sessions[s].instance].payloadLength,
                        !.sampleFormatOut = slots[sessions[s].instance].sampleFormatOut]]
    /\ UNCHANGED <<frames, lastCtor, creates, calls, stream, table>>

\* AsyncGGWave::clone
Clone(s) ==
    /\ sessions[s].wrapped
    /\ sessions[s].bridges >= 1
    /\ sessions[s].bridges < MaxClones
    /\ sessions' = [sessions EXCEPT ![s].bridges = @ + 1, ![s].refs = @ + 1]
    /\ UNCHANGED <<slots, frames, lastCtor, creates, calls, stream, table>>

\* a call that still borrows a handle of session s
Borrowing(s) ==
    {f \in FrameIds : /\ frames[f].kind = "bridge"
                      /\ frames[f].sess = s
                      /\ frames[f].pc # "done"
                      /\ ~frames[f].abandoned}

\* a handle of the bridge is dropped on the caller's (scheduler) thread
DropBridge(s) ==
    /\ sessions[s].wrapped
    /\ sessions[s].bridges >= 1
    /\ sessions[s].bridges = 1 => Borrowing(s) = {}
    /\ sessions' = [sessions EXCEPT ![s] = Released([@ EXCEPT !.bridges = @ - 1], "scheduler")]
    /\ slots' = SlotsAfter(sessions[s], sessions'[s])
    /\ UNCHANGED <<frames, lastCtor, creates, calls, stream, table>>


\* -------------------------------------------------------------------- calls
\* where the GGWave code of an operation starts
Entry(wop) ==
    CASE wop \in {"calc", "encode", "encode_into"} -> "calc"
      [] wop \in {"decode", "decode_to_string", "decode_binary"} -> "ndecode"
      [] wop \in {"toggle_rx", "toggle_tx", "enable_all_rx"} -> "toggle"
      [] OTHER -> "decode"

\* the calculate_encode_buffer_size call an operation starts with is its own
\* (0), the one of encode (1) or the one of encode_into_buffer (2)
FirstStage(wop) == CASE wop = "calc" -> 0 [] wop = "encode" -> 1 [] OTHER -> 2

\* the GGWave operation the first worker of a bridge call runs
FirstWorkerOp(op) == IF op = "encode_into" THEN "calc" ELSE op

\* the frame of a new call; a bridge call clones the Arc for its worker
NewFrame(kind, op, s, text, protocol, volume, buf, wave) ==
    [FreeFrame EXCEPT !.kind = kind, !.op = op, !.sess = s,
        !.wop = IF kind = "bridge" THEN FirstWorkerOp(op) ELSE op,
        !.pc = IF kind = "bridge" THEN "spawned" ELSE Entry(op),
        !.stage = IF kind = "bridge" THEN FirstStage(FirstWorkerOp(op)) ELSE FirstStage(op),
        !.text = text, !.protocol = protocol, !.volume = volume,
        !.ubuf = IF kind = "bridge" /\ op = "encode_into" THEN buf ELSE <<>>,
        !.buf = IF kind = "bridge" /\ op = "encode_into" THEN <<>> ELSE buf,
        !.wave = wave, !.holdsRef = (kind = "bridge")]

\* the Session can be called: the owner's GGWave, or a handle of the bridge
Callable(kind, s) ==
    /\ sessions[s].state = "live"
    /\ IF kind = "bridge"
       THEN sessions[s].wrapped /\ sessions[s].bridges >= 1
       ELSE /\ ~sessions[s].wrapped
            /\ \A f \in FrameIds : frames[f].kind # "sync"

Begun(kind, s, fr) ==
    /\ calls < MaxCalls
    /\ Callable(kind, s)
    /\ calls' = calls + 1
    /\ frames' = [frames EXCEPT ![calls + 1] = fr]
    /\ sessions' = IF kind = "bridge" THEN [sessions EXCEPT ![s].refs = @ + 1] ELSE sessions
    /\ lastCtor' = NoCtor
    /\ UNCHANGED <<slots, creates>>

\* a call made by a caller other than the background loop
Started(kind, s, fr) == Begun(kind, s, fr) /\ UNCHANGED <<stream, table>>

\* calculate_encode_buffer_size, encode_into_buffer (into a zeroed buffer of n
\* bytes) or encode is called
StartEncode(kind, s, op, text, protocol, volume, n) ==
    /\ op \in {"calc", "encode", "encode_into"}
    /\ op # "encode_into" => n = 0
    /\ Started(kind, s, NewFrame(kind, op, s, text, protocol, volume, Zeros(n), <<>>))

\* decode, decode_to_string or decode_binary is called on a foreign waveform
StartDecode(kind, s, op, wave, cap) ==
    /\ op \in {"decode", "decode_to_string", "decode_binary"}
    /\ kind = "bridge" => op = "decode_to_string"
    /\ Started(kind, s, NewFrame(kind, op, s, <<>>, 0, 0, Zeros(cap), wave))

\* process_audio_chunk is called
StartChunk(kind, s, chunk, cap) ==
    Started(kind, s, NewFrame(kind, "chunk", s, <<>>, 0, 0, Zeros(cap), chunk))

\* the caller of an encode that returned a waveform decodes that waveform on
\* the same Session
DecodeEncoded(f, op, cap) ==
    /\ frames[f].op = "encode"
    /\ frames[f].pc = "done"
    /\ frames[f].res.tag = "Ok"
    /\ op \in {"decode", "decode_to_string", "decode_binary"}
    /\ frames[f].kind = "bridge" => op = "decode_to_string"
    /\ sessions[frames[f].sess].state = "live"
    /\ frames[f].kind = "bridge" => sessions[frames[f].sess].bridges >= 1
    /\ LET fr == NewFrame(frames[f].kind, op, frames[f].sess, frames[f].text,
                          frames[f].protocol, frames[f].volume, Zeros(cap),
                          frames[f].res.data)
       IN frames' = [frames EXCEPT ![f] = [fr EXCEPT !.chained = TRUE]]
    /\ sessions' = IF frames[f].kind = "bridge"
                   THEN [sessions EXCEPT ![frames[f].sess].refs = @ + 1] ELSE sessions
    /\ UNCHANGED <<slots, lastCtor, creates, calls, stream, table>>

\* the result leaves the GGWave code: to the caller, or to the worker's closure
Returned(fr, res) ==
    [fr EXCEPT !.res = res, !.pc = IF fr.kind = "sync" THEN "done" ELSE "ret"]

Slot(f) == sessions[frames[f].sess].instance

TxOf(fr) == [text |-> fr.text, protocol |-> fr.protocol, volume |-> fr.volume]

Logged(fr, call, rc) == [fr EXCEPT !.log = Append(@, [call |-> call, rc |-> rc])]

\* ffi::helpers::is_valid_instance
is_valid_instance(instance) == instance > 0 /\ instance <= GGWAVE_MAX_INSTANCES

\* GGWave::is_fixed_length
is_fixed_length(instance) == DefaultParameters.payloadLength > 0

\* the max_length of calculate_encode_buffer_size
max_length(instance) ==
    IF is_fixed_length(instance) THEN DefaultParameters.payloadLength
    ELSE MAX_LENGTH_VARIABLE

LockFreeAlways(s) == TRUE

\* the size query of an encode or encode_into_buffer call has sized or
\* validated the buffer and the fill has yet to begin
AwaitsFill(fr) ==
    /\ fr.kind \in {"sync", "bridge"}
    /\ fr.op \in {"encode", "encode_into"}
    /\ fr.pc \notin {"done", "fill_native"}
    /\ fr.log # <<>>
    /\ \A i \in 1..Len(fr.log) : fr.log[i].call = "query" /\ fr.log[i].rc > 0

\* the calls after frame f has begun a native call: a call on the same Session
\* that awaits its fill has had another native call come in between
Noted(fs, f) ==
    [g \in FrameIds |->
        IF g # f /\ fs[g].sess = fs[f].sess /\ AwaitsFill(fs[g])
        THEN [fs[g] EXCEPT !.drift = TRUE] ELSE fs[g]]

\* the mutex of the Session is free to take
LockFree(s) == sessions[s].lock = 0

\* the worker of a bridge call takes the mutex (blocking_lock)
Lock(f) ==
    /\ frames[f].kind = "bridge"
    /\ frames[f].pc = "spawned"
    /\ LockFree(frames[f].sess)
    /\ sessions' = [sessions EXCEPT ![frames[f].sess].lock = f]
    /\ frames' = [frames EXCEPT ![f].pc = Entry(frames[f].wop)]
    /\ UNCHANGED <<slots, lastCtor, creates, calls, stream, table>>

\* calculate_encode_buffer_size up to its native call: the length check, then
\* ggwave_encode(.., query = 1) begins
CalcEnter(f) ==
    /\ frames[f].pc = "calc"
    /\ IF Len(frames[f].text) > max_length(Slot(f))
       THEN /\ frames' = [frames EXCEPT ![f] =
                    Returned(@, TextTooLong(Len(frames[f].text), max_length(Slot(f))))]
            /\ UNCHANGED slots
       ELSE /\ frames' = Noted([frames EXCEPT ![f].pc = "calc_native"], f)
            /\ slots' = [slots EXCEPT ![Slot(f)].tx = TxOf(frames[f])]
    /\ UNCHANGED <<sessions, lastCtor, creates, calls, stream, table>>

QueryResultZeroOk(rc) == IF rc < 0 THEN EncodeFailed(rc) ELSE OkN(rc)

\* the Result of the size query
QueryResult(rc) == IF rc <= 0 THEN EncodeFailed(rc) ELSE OkN(rc)

TooSmallNever(len, required) == FALSE

\* the buffer is too small for the required size
TooSmall(len, required) == len < required

\* the code that follows a calculate_encode_buffer_size call
AfterCalc(fr, r) ==
    CASE r.tag = "Err" \/ fr.stage = 0 -> Returned(fr, r)
      [] r.tag = "Ok" /\ fr.stage = 1 ->
            [fr EXCEPT !.size = r.n, !.buf = Zeros(r.n), !.stage = 2, !.pc = "calc"]
      [] OTHER ->
            IF TooSmall(Len(fr.buf), r.n)
            THEN Returned(fr, BufferTooSmall(r.n, Len(fr.buf)))
            ELSE [fr EXCEPT !.pc = "fill"]

\* the size query ends with code rc
QueryReturn(f, rc) ==
    /\ frames[f].pc = "calc_native"
    /\ rc \in EncodeCodes(slots[Slot(f)].tx)
    /\ frames' = [frames EXCEPT ![f] = AfterCalc(Logged(@, "query", rc), QueryResult(rc))]
    /\ slots' = [slots EXCEPT ![Slot(f)].tx = NoTx]
    /\ UNCHANGED <<sessions, lastCtor, creates, calls, stream, table>>

\* ggwave_encode(.., query = 0) begins
FillEnter(f) ==
    /\ frames[f].pc = "fill"
    /\ frames' = Noted([frames EXCEPT ![f].pc = "fill_native"], f)
    /\ slots' = [slots EXCEPT ![Slot(f)].tx = TxOf(frames[f])]
    /\ UNCHANGED <<sessions, lastCtor, creates, calls, stream, table>>

\* the Result of the fill
FillResult(rc) == IF rc < 0 THEN EncodeFailed(rc) ELSE OkN(rc)

\* encode trims its buffer to the bytes written
Trimmed(buffer, written) ==
    IF written < Len(buffer) THEN Take(buffer, written) ELSE buffer

\* the code that follows the fill
AfterFill(fr, r) ==
    CASE r.tag = "Err" \/ fr.wop = "encode_into" -> Returned(fr, r)
      [] OTHER -> Returned(fr, OkData(Trimmed(fr.buf, r.n)))

\* the fill ends with code rc, the waveform written when rc is a size
FillReturn(f, rc) ==
    /\ frames[f].pc = "fill_native"
    /\ rc \in EncodeCodes(slots[Slot(f)].tx)
    /\ LET out == IF rc > 0 THEN Overwrite(frames[f].buf, Waveform(slots[Slot(f)].tx))
                  ELSE frames[f].buf
       IN frames' = [frames EXCEPT ![f] =
                        AfterFill([Logged(@, "fill", rc) EXCEPT !.buf = out], FillResult(rc))]
    /\ slots' = [slots EXCEPT ![Slot(f)].tx = NoTx]
    /\ UNCHANGED <<sessions, lastCtor, creates, calls, stream, table>>


\* ggwave_ndecode begins
NDecodeEnter(f) ==
    /\ frames[f].pc = "ndecode"
    /\ frames' = Noted([frames EXCEPT ![f].pc = "ndecode_native"], f)
    /\ UNCHANGED <<slots, sessions, lastCtor, creates, calls, stream, table>>

Panicked == [NoRes EXCEPT !.tag = "Panic"]

\* std::str::from_utf8(&buffer[..result])
FromUtf8(buffer, result) ==
    IF result > Len(buffer) THEN Panicked
    ELSE IF IsUtf8(Take(buffer, result)) THEN OkData(Take(buffer, result))
    ELSE Utf8Error

NDecodeResultLenient(wop, rc, buffer) ==
    IF rc < 0 THEN OkData(<<>>)
    ELSE IF wop = "decode_binary" THEN OkData(Take(buffer, rc))
    ELSE FromUtf8(buffer, rc)

\* the Result of decode, decode_to_string and decode_binary
NDecodeResult(wop, rc, buffer) ==
    IF rc < 0 THEN DecodeFailed(rc)
    ELSE IF wop = "decode_binary" THEN OkData(Take(buffer, rc))
    ELSE FromUtf8(buffer, rc)

\* the bounded decode ends with code rc, the payload written when rc is a length
NDecodeReturn(f, rc) ==
    /\ frames[f].pc = "ndecode_native"
    /\ rc \in NDecodeCodes(frames[f].wave, Len(frames[f].buf))
    /\ LET out == IF rc > 0 THEN Overwrite(frames[f].buf, Payload(frames[f].wave))
                  ELSE frames[f].buf
       IN frames' = [frames EXCEPT ![f] =
                        Returned([Logged(@, "ndecode", rc) EXCEPT !.buf = out],
                                 NDecodeResult(frames[f].wop, rc, out))]
    /\ UNCHANGED <<slots, sessions, lastCtor, creates, calls, stream, table>>

\* ggwave_decode begins: the receiver of the slot takes the chunk in
DecodeEnter(f) ==
    /\ frames[f].pc = "decode"
    /\ frames' = Noted([frames EXCEPT ![f].pc = "decode_native"], f)
    /\ slots' = [slots EXCEPT ![Slot(f)].rx = RxAfter(@, frames[f].wave)]
    /\ UNCHANGED <<sessions, lastCtor, creates, calls, stream, table>>

\* the Result of process_audio_chunk
ChunkResult(rc, buffer) ==
    IF rc < 0
    THEN (IF rc < 0 THEN DecodeFailed(rc) ELSE OkNone)
    ELSE FromUtf8(buffer, rc)

\* the streaming decode ends with code rc, the payload written when rc is a length
DecodeReturn(f, rc) ==
    /\ frames[f].pc = "decode_native"
    /\ rc \in DecodeCodes(slots[Slot(f)].rx)
    /\ LET out == IF rc > 0 THEN Overwrite(frames[f].buf, Payload(slots[Slot(f)].rx))
                  ELSE frames[f].buf
       IN frames' = [frames EXCEPT ![f] =
                        Returned([Logged(@, "decode", rc) EXCEPT !.buf = out],
                                 ChunkResult(rc, out))]
    /\ slots' = [slots EXCEPT ![Slot(f)].rx = IF Framed(@) THEN <<>> ELSE @]
    /\ UNCHANGED <<sessions, lastCtor, creates, calls, stream, table>>

\* ------------------------------------------------------------------- bridge
GoneFrame == [FreeFrame EXCEPT !.kind = "returned", !.pc = "returned"]

FinishAborted(f) ==
    /\ frames[f].kind = "bridge"
    /\ frames[f].pc = "ret"
    /\ sessions' = [sessions EXCEPT ![frames[f].sess] =
                        Released([@ EXCEPT !.lock = IF frames[f].abandoned THEN @ ELSE 0],
                                 "worker")]
    /\ slots' = SlotsAfter(sessions[frames[f].sess], sessions'[frames[f].sess])
    /\ frames' = [frames EXCEPT ![f] =
                    IF @.abandoned THEN GoneFrame
                    ELSE [@ EXCEPT !.pc = "joined", !.holdsRef = FALSE]]
    /\ UNCHANGED <<lastCtor, creates, calls, stream, table>>

FinishHoldsOnError(f) ==
    /\ frames[f].kind = "bridge"
    /\ frames[f].pc = "ret"
    /\ sessions' = [sessions EXCEPT ![frames[f].sess] =
                        Released([@ EXCEPT !.lock = IF frames[f].res.tag = "Ok" THEN 0 ELSE @],
                                 "worker")]
    /\ slots' = SlotsAfter(sessions[frames[f].sess], sessions'[frames[f].sess])
    /\ frames' = [frames EXCEPT ![f] =
                    IF @.abandoned THEN GoneFrame
                    ELSE [@ EXCEPT !.pc = "joined", !.holdsRef = FALSE]]
    /\ UNCHANGED <<lastCtor, creates, calls, stream, table>>

FinishKeepsGuard(f) ==
    /\ frames[f].kind = "bridge"
    /\ frames[f].pc = "ret"
    /\ sessions' = [sessions EXCEPT ![frames[f].sess] = Released(@, "worker")]
    /\ slots' = SlotsAfter(sessions[frames[f].sess], sessions'[frames[f].sess])
    /\ frames' = [frames EXCEPT ![f] =
                    IF @.abandoned THEN GoneFrame
                    ELSE [@ EXCEPT !.pc = "joined", !.holdsRef = FALSE]]
    /\ UNCHANGED <<lastCtor, creates, calls, stream, table>>

\* the worker's closure ends: the guard is dropped, then the worker's Arc
Finish(f) ==
    /\ frames[f].kind = "bridge"
    /\ frames[f].pc = "ret"
    /\ sessions' = [sessions EXCEPT ![frames[f].sess] =
                        Released([@ EXCEPT !.lock = 0], "worker")]
    /\ slots' = SlotsAfter(sessions[frames[f].sess], sessions'[frames[f].sess])
    /\ frames' = [frames EXCEPT ![f] =
                    IF @.abandoned THEN GoneFrame
                    ELSE [@ EXCEPT !.pc = "joined", !.holdsRef = FALSE]]
    /\ UNCHANGED <<lastCtor, creates, calls, stream, table>>

JoinedPropagates(op, r) == r

\* what the awaited JoinHandle gives: map_err turns a failed task into an error
Joined(op, r) ==
    IF r.tag = "Panic"
    THEN (IF op \in {"calc", "encode", "encode_into"} THEN EncodeFailed(0 - 1)
          ELSE DecodeFailed(0 - 1))
    ELSE r

\* AsyncGGWave::encode_into_buffer after its size query has been awaited
AfterAsyncCalc(fr, r) ==
    CASE r.tag = "Err" -> [fr EXCEPT !.res = r, !.pc = "done"]
      [] r.tag = "Ok" /\ TooSmall(Len(fr.ubuf), r.n) ->
            [fr EXCEPT !.res = BufferTooSmall(r.n, Len(fr.ubuf)), !.pc = "done"]
      [] OTHER ->
            [fr EXCEPT !.wop = "encode", !.stage = 1, !.pc = "spawned", !.holdsRef = TRUE]

\* AsyncGGWave::encode_into_buffer after its encode has been awaited
AfterAsyncEncode(fr, r) ==
    IF r.tag = "Err" THEN [fr EXCEPT !.res = r, !.pc = "done"]
    ELSE LET len == Min(Len(r.data), Len(fr.ubuf))
         IN [fr EXCEPT !.ubuf = Overwrite(@, Take(r.data, len)), !.res = OkN(len),
                       !.pc = "done"]

\* the caller of a bridge call resumes with the worker's result
Resume(f) ==
    /\ frames[f].kind = "bridge"
    /\ frames[f].pc = "joined"
    /\ LET r == Joined(frames[f].op, frames[f].res)
           fr == CASE frames[f].op = "encode_into" /\ frames[f].wop = "calc" ->
                        AfterAsyncCalc(frames[f], r)
                   [] frames[f].op = "encode_into" /\ frames[f].wop = "encode" ->
                        AfterAsyncEncode(frames[f], r)
                   [] OTHER -> [frames[f] EXCEPT !.res = r, !.pc = "done"]
       IN /\ frames' = [frames EXCEPT ![f] = fr]
          /\ sessions' = IF fr.pc = "spawned"
                         THEN [sessions EXCEPT ![frames[f].sess].refs = @ + 1]
                         ELSE sessions
    /\ UNCHANGED <<slots, lastCtor, creates, calls, stream, table>>

\* the caller drops the future of a bridge call it was awaiting
Abandon(f) ==
    /\ frames[f].kind = "bridge"
    /\ frames[f].pc # "done"
    /\ ~frames[f].abandoned
    /\ frames' = [frames EXCEPT ![f] =
                    IF @.pc = "joined" THEN GoneFrame ELSE [@ EXCEPT !.abandoned = TRUE]]
    /\ UNCHANGED <<slots, sessions, lastCtor, creates, calls, stream, table>>

\* the caller takes the result of a finished call
Return(f) ==
    /\ frames[f].pc = "done"
    /\ frames' = [frames EXCEPT ![f] = GoneFrame]
    /\ UNCHANGED <<slots, sessions, lastCtor, creates, calls, stream, table>>

\* ------------------------------------------------------------ specification
Kinds == {"sync", "bridge"}

\* the codes a native call can end with
ReturnCodes == (0 - 2)..(MaxTextLen + 2)

\* no call is in progress and every result has been taken
Quiet == \A f \in FrameIds : frames[f].kind \in {"free", "returned"}

\* the steps of a call in progress
Step(f) ==
    \/ Lock(f)
    \/ CalcEnter(f)
    \/ \E rc \in ReturnCodes : QueryReturn(f, rc)
    \/ FillEnter(f)
    \/ \E rc \in ReturnCodes : FillReturn(f, rc)
    \/ DecodeEnter(f)
    \/ \E rc \in ReturnCodes : DecodeReturn(f, rc)
    \/ Finish(f)
    \/ Resume(f)
    \/ Return(f)

\* the steps of a bounded decode in progress
DecodeStep(f) ==
    \/ NDecodeEnter(f)
    \/ \E rc \in ReturnCodes : NDecodeReturn(f, rc)

\* no Session is live: one Session at a time
NoneLive == \A s \in SessIds : sessions[s].state # "live"

\* the bridge under concurrent callers: handles are cloned and dropped, calls
\* overlap and are abandoned
Next ==
    \/ /\ NoneLive
       /\ creates < MaxCreates
       /\ \E instance \in {0 - 1} \cup Slots :
            \/ Create("new", DefaultParameters.payloadLength, TRUE, instance)
            \/ Create("new_with_params", MAX_LENGTH_FIXED + 1, TRUE, instance)
    \/ \E s \in SessIds : Clone(s)
    \/ \E s \in SessIds : DropBridge(s)
    \/ \E s \in SessIds, text \in FewTexts :
            StartEncode("bridge", s, "encode", text, AUDIBLE_NORMAL, DEFAULT_VOLUME, 0)
    \/ \E s \in SessIds, text \in FewTexts, n \in FewBufLens :
            /\ Len(text) = MaxTextLen
            /\ StartEncode("bridge", s, "encode_into", text, AUDIBLE_NORMAL, DEFAULT_VOLUME, n)
    \/ \E s \in SessIds, chunk \in FewChunks : StartChunk("bridge", s, chunk, MaxTextLen)
    \/ \E f \in FrameIds : Abandon(f)
    \/ \E f \in FrameIds : Step(f)

Spec == Init /\ [][Next]_vars

\* one caller that makes one call at a time, of GGWave or of AsyncGGWave, with
\* every input
NextSeq ==
    \/ /\ Quiet
       /\ NoneLive
       /\ creates < MaxCreates
       /\ \E ctor \in Ctors, length \in CtorLengths, async \in BOOLEAN,
             instance \in {0 - 1} \cup Slots : Create(ctor, length, async, instance)
    \/ \E s \in SessIds : DropSession(s)
    \/ \E s \in SessIds : DropBridge(s)
    \/ /\ Quiet
       /\ \E kind \in Kinds, s \in SessIds, op \in {"calc", "encode", "encode_into"},
             text \in Texts, n \in BufLens :
               \E pv \in TxInputs(kind) : StartEncode(kind, s, op, text, pv[1], pv[2], n)
    \/ /\ Quiet
       /\ \E kind \in Kinds, s \in SessIds, op \in {"decode", "decode_to_string", "decode_binary"},
             wave \in ForeignWaves, cap \in Caps :
               StartDecode(kind, s, op, wave, cap)
    \/ /\ Quiet
       /\ \E kind \in Kinds, s \in SessIds, chunk \in Chunks, cap \in Caps :
               StartChunk(kind, s, chunk, cap)
    \/ \E f \in FrameIds, op \in {"decode", "decode_to_string", "decode_binary"}, cap \in Caps :
            DecodeEncoded(f, op, cap)
    \/ \E f \in FrameIds : Step(f)
    \/ \E f \in FrameIds : DecodeStep(f)

SpecSeq == Init /\ [][NextSeq]_vars

\* Sessions created and dropped side by side, up to and beyond the number of
\* slots of the native library
NextSlots ==
    \/ \E instance \in {0 - 1} \cup Slots :
            \/ Create("new", DefaultParameters.payloadLength, FALSE, instance)
            \/ Create("new_with_params", 1, TRUE, instance)
    \/ \E s \in SessIds : DropSession(s)
    \/ \E s \in SessIds : DropBridge(s)

SpecSlots == Init /\ [][NextSlots]_vars

\* ------------------------------------------------------------------- stream
\* the buffer_size values start_background_processing is called with
Capacities == 0..(MaxCalls - 1)

\* what reader.read gives the loop: a failure, end of stream, or a chunk
StreamChunks ==
    {<<StartMarker(AUDIBLE_NORMAL)>>,
     <<StartMarker(AUDIBLE_NORMAL), Sample(1, DEFAULT_VOLUME), EndMarker>>,
     <<StartMarker(AUDIBLE_NORMAL), Sample(2, DEFAULT_VOLUME), EndMarker>>}

\* the chunk_size the loops are started with: every chunk above fits
ChunkSize == 3

ReadOutcomes ==
    {[kind |-> "error", bytes |-> <<>>], [kind |-> "eof", bytes |-> <<>>]}
        \cup {[kind |-> "data", bytes |-> c] : c \in StreamChunks}

\* the handles of session s the background loop owns or a running
\* process_audio_stream borrows
LoopHandles(s) ==
    IF stream.sess = s /\ stream.pc \in {"read", "decode", "send", "cb_read", "cb_decode"}
    THEN 1 ELSE 0

\* start_background_processing: the channel is made (a capacity of 0 is
\* refused with a panic, which drops the handle passed in), the loop spawned
StartStream(s, cap) ==
    /\ stream.pc = "none"
    /\ sessions[s].state = "live"
    /\ sessions[s].wrapped
    /\ sessions[s].bridges >= 1
    /\ IF cap = 0
       THEN /\ stream' = [NoStream EXCEPT !.pc = "panicked", !.sess = s]
            /\ sessions' = [sessions EXCEPT ![s] =
                                Released([@ EXCEPT !.bridges = @ - 1], "caller")]
            /\ slots' = SlotsAfter(sessions[s], sessions'[s])
       ELSE /\ stream' = [NoStream EXCEPT !.pc = "read", !.sess = s, !.cap = cap,
                                          !.rx = "alive", !.buffer = Zeros(ChunkSize)]
            /\ UNCHANGED <<slots, sessions>>
    /\ UNCHANGED <<frames, lastCtor, creates, calls, table>>

\* the task ends: the Sender is dropped, which closes the channel, and the
\* loop's handle of the bridge is dropped on the runtime's thread
Ended(st, cause) ==
    /\ stream' = [st EXCEPT !.pc = "ended", !.cause = cause, !.frame = 0, !.msg = <<>>]
    /\ sessions' = [sessions EXCEPT ![st.sess] =
                        Released([@ EXCEPT !.bridges = @ - 1], "scheduler")]
    /\ slots' = SlotsAfter(sessions[st.sess], sessions'[st.sess])

AfterReadRetries(outcome) ==
    CASE outcome.kind = "error" -> "read"
      [] outcome.kind = "eof" -> "ended"
      [] OTHER -> "decode"

AfterReadIgnoresEof(outcome) ==
    CASE outcome.kind = "error" -> "ended"
      [] OTHER -> "decode"

\* where the loop goes after a read: break on Err(_) and on Ok(0)
AfterRead(outcome) ==
    CASE outcome.kind = "error" -> "ended"
      [] outcome.kind = "eof" -> "ended"
      [] OTHER -> "decode"

ChunkWhole(buffer, n) == buffer

\* &buffer[..n]: the part of the buffer the last read filled
Chunk(buffer, n) == Take(buffer, n)

\* the loop after reader.read(&mut buffer) has given `outcome`
ReadInto(st, outcome) ==
    [st EXCEPT !.reads = @ + 1, !.lastRead = outcome.kind,
               !.buffer = Overwrite(@, outcome.bytes), !.n = Len(outcome.bytes),
               !.read = @ \o outcome.bytes]

\* the loop hands the chunk of its last read to process_audio_chunk
Feeding(st) == [st EXCEPT !.fed = @ \o Chunk(st.buffer, st.n)]

\* reader.read(&mut buffer).await and what the loop does with its outcome
LoopRead(outcome) ==
    /\ stream.pc = "read"
    /\ stream.reads <= MaxCalls
    /\ Len(outcome.bytes) <= Len(stream.buffer)
    /\ LET st == [ReadInto(stream, outcome) EXCEPT
                    !.late = IF stream.rx = "dropped" THEN @ + 1 ELSE @]
       IN CASE AfterRead(outcome) = "ended" ->
                  /\ Ended(st, outcome.kind)
                  /\ UNCHANGED <<frames, lastCtor, creates, calls, table>>
            [] AfterRead(outcome) = "read" ->
                  /\ stream' = st
                  /\ UNCHANGED <<slots, sessions, frames, lastCtor, creates, calls, table>>
            [] OTHER ->
                  /\ Begun("bridge", stream.sess,
                           NewFrame("bridge", "chunk", stream.sess, <<>>, 0, 0,
                                    Zeros(MaxTextLen), Chunk(st.buffer, st.n)))
                  /\ stream' = [Feeding(st) EXCEPT !.pc = "decode", !.frame = calls + 1]
                  /\ UNCHANGED table

PushesAlways(r) == TRUE

\* `if let Ok(Some(decoded))`: the results of process_audio_chunk that are pushed
Pushes(r) == r.tag = "Ok" /\ r.some

\* what a result of process_audio_chunk is: a message, nothing yet, or a fault
Outcome(r) ==
    CASE r.tag # "Ok" -> "fault"
      [] r.some -> "message"
      [] OTHER -> "nothing"

\* the loop resumes with the result of process_audio_chunk
LoopTake ==
    /\ stream.pc = "decode"
    /\ frames[stream.frame].pc = "done"
    /\ stream' = IF Pushes(frames[stream.frame].res)
                 THEN [stream EXCEPT !.pc = "send", !.msg = frames[stream.frame].res.data,
                                     !.frame = 0,
                                     !.lastDecode = Outcome(frames[stream.frame].res)]
                 ELSE [stream EXCEPT !.pc = "read", !.frame = 0,
                                     !.lastDecode = Outcome(frames[stream.frame].res)]
    /\ frames' = [frames EXCEPT ![stream.frame] = GoneFrame]
    /\ UNCHANGED <<slots, sessions, lastCtor, creates, calls, table>>

SendNeverFails(rx) == FALSE

\* tx.send fails once the Receiver is gone
SendFails(rx) == rx = "dropped"

ChannelNeverFull(q, cap) == FALSE

\* the channel made with mpsc::channel(buffer_size) has no room left
ChannelFull(q, cap) == Len(q) >= cap

\* tx.send(decoded).await: suspended while the channel is full, break on error
LoopSend ==
    /\ stream.pc = "send"
    /\ IF SendFails(stream.rx)
       THEN /\ Ended(stream, "closed")
            /\ UNCHANGED <<frames, lastCtor, creates, calls, table>>
       ELSE /\ ~ChannelFull(stream.queue, stream.cap)
            /\ stream' = [stream EXCEPT !.queue = Append(@, stream.msg),
                                        !.sent = Append(@, stream.msg),
                                        !.pc = "read", !.msg = <<>>]
            /\ UNCHANGED <<slots, sessions, frames, lastCtor, creates, calls, table>>

TakenNothing(q) == q

\* the channel after the Receiver has taken a message
Taken(q) == Tail(q)

ReceivedUnlessTimedOut(op) ==
    IF stream.queue # <<>>
    THEN (IF op = "recv_timeout"
          THEN [stream EXCEPT !.queue = Taken(@),
                              !.last = [op |-> op, some |-> FALSE, msg |-> <<>>]]
          ELSE [stream EXCEPT !.queue = Taken(@), !.got = Append(@, Head(stream.queue)),
                              !.last = [op |-> op, some |-> TRUE, msg |-> Head(stream.queue)]])
    ELSE [stream EXCEPT !.last = [op |-> op, some |-> FALSE, msg |-> <<>>]]

\* the MessageReceiver after an operation that found the channel as it is:
\* the oldest message when there is one, None otherwise
Received(op) ==
    IF stream.queue # <<>>
    THEN [stream EXCEPT !.queue = Taken(@), !.got = Append(@, Head(stream.queue)),
                        !.last = [op |-> op, some |-> TRUE, msg |-> Head(stream.queue)]]
    ELSE [stream EXCEPT !.last = [op |-> op, some |-> FALSE, msg |-> <<>>]]

\* MessageReceiver::recv returns: a message, or None once the channel is
\* closed and empty; it waits otherwise
Recv ==
    /\ stream.rx = "alive"
    /\ stream.queue # <<>> \/ stream.pc = "ended"
    /\ stream' = Received("recv")
    /\ UNCHANGED <<slots, sessions, frames, lastCtor, creates, calls, table>>

\* MessageReceiver::try_recv
TryRecv ==
    /\ stream.rx = "alive"
    /\ stream' = Received("try_recv")
    /\ UNCHANGED <<slots, sessions, frames, lastCtor, creates, calls, table>>

\* MessageReceiver::recv_timeout returns: a message, or None when the timeout
\* expired or the channel is closed and empty
RecvTimeout ==
    /\ stream.rx = "alive"
    /\ stream' = Received("recv_timeout")
    /\ UNCHANGED <<slots, sessions, frames, lastCtor, creates, calls, table>>

\* the MessageReceiver is dropped: the channel is closed and emptied
DropReceiver ==
    /\ stream.rx = "alive"
    /\ stream' = [stream EXCEPT !.rx = "dropped", !.queue = <<>>]
    /\ UNCHANGED <<slots, sessions, frames, lastCtor, creates, calls, table>>

\* ------------------------------------------------------ process_audio_stream
\* what the callback of process_audio_stream returns
CallbackResults == {OkNone, InvalidParameter}

\* AsyncGGWave::process_audio_stream is called through a handle of session s
StartProcess(s) ==
    /\ stream.pc = "none"
    /\ sessions[s].state = "live"
    /\ sessions[s].wrapped
    /\ sessions[s].bridges >= 1
    /\ stream' = [NoStream EXCEPT !.pc = "cb_read", !.sess = s, !.buffer = Zeros(ChunkSize)]
    /\ UNCHANGED <<slots, sessions, frames, lastCtor, creates, calls, table>>

\* process_audio_stream returns res
Leaves(st, res) == [st EXCEPT !.pc = "returned", !.result = res, !.frame = 0]

\* reader.read(&mut buffer).await.map_err(Error::IoError)?, the n == 0 test
\* and the call of process_audio_chunk
StreamRead(outcome) ==
    /\ stream.pc = "cb_read"
    /\ stream.reads <= MaxCalls
    /\ Len(outcome.bytes) <= Len(stream.buffer)
    /\ LET st == ReadInto(stream, outcome)
       IN CASE outcome.kind = "error" ->
                  /\ stream' = Leaves(st, IoError)
                  /\ UNCHANGED <<slots, sessions, frames, lastCtor, creates, calls, table>>
            [] outcome.kind = "eof" ->
                  /\ stream' = Leaves(st, OkNone)
                  /\ UNCHANGED <<slots, sessions, frames, lastCtor, creates, calls, table>>
            [] OTHER ->
                  /\ Begun("bridge", stream.sess,
                           NewFrame("bridge", "chunk", stream.sess, <<>>, 0, 0,
                                    Zeros(MaxTextLen), Chunk(st.buffer, st.n)))
                  /\ stream' = [Feeding(st) EXCEPT !.pc = "cb_decode", !.frame = calls + 1]
                  /\ UNCHANGED table

PropagatesNever(r) == FALSE

\* the `?` after process_audio_chunk(..).await: an Err leaves the function
Propagates(r) == r.tag # "Ok"

\* process_audio_stream resumes with the result of process_audio_chunk and
\* calls the callback, which returns cb, with a decoded payload
StreamTake(cb) ==
    /\ stream.pc = "cb_decode"
    /\ frames[stream.frame].pc = "done"
    /\ LET r == frames[stream.frame].res
           st == [stream EXCEPT !.lastDecode = Outcome(r), !.frame = 0]
       IN CASE Propagates(r) ->
                  /\ cb = OkNone
                  /\ stream' = Leaves(st, r)
            [] r.tag = "Ok" /\ r.some ->
                  stream' = IF cb.tag = "Ok"
                            THEN [st EXCEPT !.called = Append(@, r.data), !.pc = "cb_read"]
                            ELSE Leaves([st EXCEPT !.called = Append(@, r.data)], cb)
            [] OTHER ->
                  /\ cb = OkNone
                  /\ stream' = [st EXCEPT !.pc = "cb_read"]
    /\ frames' = [frames EXCEPT ![stream.frame] = GoneFrame]
    /\ UNCHANGED <<slots, sessions, lastCtor, creates, calls, table>>

\* the steps of the process_audio_chunk call of the loop
ChunkStep(f) ==
    \/ Lock(f)
    \/ DecodeEnter(f)
    \/ \E rc \in ReturnCodes : DecodeReturn(f, rc)
    \/ Finish(f)
    \/ Resume(f)

\* one bridge, its handles, a background loop on it and the MessageReceiver,
\* or a process_audio_stream call on it
NextStream ==
    \/ /\ NoneLive
       /\ creates < MaxCreates
       /\ \E instance \in Slots : Create("new", DefaultParameters.payloadLength, TRUE, instance)
    \/ \E s \in SessIds : Clone(s)
    \/ \E s \in SessIds : sessions[s].bridges > LoopHandles(s) /\ DropBridge(s)
    \/ \E s \in SessIds, cap \in Capacities : StartStream(s, cap)
    \/ \E outcome \in ReadOutcomes : LoopRead(outcome)
    \/ LoopTake
    \/ LoopSend
    \/ \E s \in SessIds : StartProcess(s)
    \/ \E outcome \in ReadOutcomes : StreamRead(outcome)
    \/ \E cb \in CallbackResults : StreamTake(cb)
    \/ \E f \in FrameIds : ChunkStep(f)
    \/ Recv
    \/ TryRecv
    \/ RecvTimeout
    \/ DropReceiver

SpecStream == Init /\ [][NextStream]_vars

\* ------------------------------------------------------------ shared bridge
\* the steps of a call on a bridge a background loop runs on: the loop takes
\* the result of its own call, the callers of the other handles theirs
SharedStep(f) ==
    \/ ChunkStep(f)
    \/ CalcEnter(f)
    \/ \E rc \in ReturnCodes : QueryReturn(f, rc)
    \/ FillEnter(f)
    \/ \E rc \in ReturnCodes : FillReturn(f, rc)
    \/ f # stream.frame /\ Return(f)

\* one bridge whose handles are shared by a background loop and by callers
\* that encode and feed chunks of their own
NextShared ==
    \/ /\ NoneLive
       /\ creates < MaxCreates
       /\ \E instance \in Slots : Create("new", DefaultParameters.payloadLength, TRUE, instance)
    \/ \E s \in SessIds : Clone(s)
    \/ \E s \in SessIds, cap \in Capacities \ {0} : StartStream(s, cap)
    \/ \E outcome \in ReadOutcomes : LoopRead(outcome)
    \/ LoopTake
    \/ LoopSend
    \/ \E s \in SessIds, chunk \in FewChunks :
            /\ sessions[s].bridges > LoopHandles(s)
            /\ StartChunk("bridge", s, chunk, MaxTextLen)
    \/ \E s \in SessIds :
            /\ sessions[s].bridges > LoopHandles(s)
            /\ StartEncode("bridge", s, "encode", <<1>>, AUDIBLE_NORMAL, DEFAULT_VOLUME, 0)
    \/ \E f \in FrameIds : SharedStep(f)

SpecShared == Init /\ [][NextShared]_vars

\* ----------------------------------------------------------------- fairness
\* the texts of the encode calls: one that is encoded, one that is too long
LiveTexts == {<<1>>, Fill(MAX_LENGTH_VARIABLE + 1, 1)}

\* a bridge shared by a background loop and by callers whose calls succeed
\* and fail in every way
NextLive ==
    \/ /\ NoneLive
       /\ creates < MaxCreates
       /\ \E instance \in Slots : Create("new", DefaultParameters.payloadLength, TRUE, instance)
    \/ \E s \in SessIds : Clone(s)
    \/ \E s \in SessIds, cap \in Capacities \ {0} : StartStream(s, cap)
    \/ \E outcome \in ReadOutcomes : LoopRead(outcome)
    \/ LoopTake
    \/ LoopSend
    \/ \E s \in SessIds, text \in LiveTexts :
            /\ sessions[s].bridges > LoopHandles(s)
            /\ StartEncode("bridge", s, "encode", text, AUDIBLE_NORMAL, DEFAULT_VOLUME, 0)
    \/ \E s \in SessIds, wave \in ForeignWaves :
            /\ sessions[s].bridges > LoopHandles(s)
            /\ StartDecode("bridge", s, "decode_to_string", wave, MaxTextLen)
    \/ \E f \in FrameIds : SharedStep(f)
    \/ \E f \in FrameIds : DecodeStep(f)

\* the code a worker runs once it has the mutex: every native call returns
\* and the closure runs to its end
Work(f) ==
    \/ CalcEnter(f)
    \/ \E rc \in ReturnCodes : QueryReturn(f, rc)
    \/ FillEnter(f)
    \/ \E rc \in ReturnCodes : FillReturn(f, rc)
    \/ DecodeEnter(f)
    \/ \E rc \in ReturnCodes : DecodeReturn(f, rc)
    \/ DecodeStep(f)
    \/ Finish(f)

\* fair scheduling: a worker on the blocking pool keeps running, tokio's
\* Mutex serves its waiters in turn, so a worker that finds the mutex free
\* again and again takes it, and an awaiting caller that is woken resumes
Fairness ==
    \A f \in FrameIds :
        /\ WF_vars(Work(f))
        /\ SF_vars(Lock(f))
        /\ WF_vars(Resume(f))

SpecLive == Init /\ [][NextLive]_vars /\ Fairness

\* ------------------------------------------------------------ configuration
\* the operations that change the reception and transmission toggles
ToggleOps == {"toggle_rx", "toggle_tx", "enable_all_rx"}

\* the arguments of the toggle calls: a standard protocol is disabled, a
\* custom one enabled
ToggleInputs == {<<AUDIBLE_NORMAL, FALSE>>, <<CUSTOM_0, TRUE>>}

\* the output sample formats the builder is given
Formats == {I16, F32}

\* the start frequency the setters are given
FreqStart == 1

StateInverted(enabled) == IF enabled THEN 0 ELSE 1

\* the state argument of the native toggle for a bool
State(enabled) == IF enabled THEN 1 ELSE 0

\* toggle_rx_protocol(p, e), toggle_tx_protocol(p, e) or
\* enable_all_rx_protocols() is called
StartToggle(kind, s, op, p, e) ==
    /\ op \in ToggleOps
    /\ op = "enable_all_rx" => p = 0 /\ e
    /\ Started(kind, s, [NewFrame(kind, op, s, <<>>, p, 0, <<>>, <<>>) EXCEPT !.enabled = e])

\* the table a toggle of frame fr changes
Dir(fr) == IF fr.wop = "toggle_tx" THEN "tx" ELSE "rx"

\* the native call of a toggle, as the log of the frame names it
ToggleCall(fr) ==
    CASE Dir(fr) = "rx" /\ fr.enabled -> "rx_on"
      [] Dir(fr) = "rx" -> "rx_off"
      [] fr.enabled -> "tx_on"
      [] OTHER -> "tx_off"

\* the native toggle call begins
ToggleEnter(f) ==
    /\ frames[f].pc = "toggle"
    /\ frames' = [frames EXCEPT ![f].pc = "toggle_native"]
    /\ UNCHANGED <<slots, sessions, lastCtor, creates, calls, stream, table>>

MoreToEnableInclusive(p) == p + 1 <= COUNT

\* the loop of enable_all_rx_protocols has another protocol to enable after p
MoreToEnable(p) == p + 1 < COUNT

\* a call that is changing the toggles while frame f changes them
Overlapping(fs, f) ==
    [g \in FrameIds |->
        IF g # f /\ fs[g].kind \in {"sync", "bridge"} /\ fs[g].op \in ToggleOps
                 /\ fs[g].pc \notin {"ret", "joined", "done"}
        THEN [fs[g] EXCEPT !.drift = TRUE] ELSE fs[g]]

\* the native toggle call ends: the process-wide table has the flag; the loop
\* of enable_all_rx_protocols goes on to the next protocol
ToggleReturn(f) ==
    /\ frames[f].pc = "toggle_native"
    /\ table' = Toggled(table, Dir(frames[f]), frames[f].protocol, State(frames[f].enabled))
    /\ LET fr == Logged(frames[f], ToggleCall(frames[f]), frames[f].protocol)
           next == IF fr.wop = "enable_all_rx" /\ MoreToEnable(fr.protocol)
                   THEN [fr EXCEPT !.protocol = @ + 1, !.pc = "toggle"]
                   ELSE Returned(fr, OkNone)
       IN frames' = Overlapping([frames EXCEPT ![f] = next], f)
    /\ UNCHANGED <<slots, sessions, lastCtor, creates, calls, stream>>

\* set_rx_protocol_freq_start / set_tx_protocol_freq_start of GGWave
SetFreqStart(s, dir, p, freq) ==
    /\ dir \in {"rx", "tx"}
    /\ p \in ProtocolIds
    /\ Begun("sync", s, [NewFrame("sync", "set_freq_start", s, <<>>, p, 0, <<>>, <<>>)
                             EXCEPT !.pc = "done", !.res = OkNone])
    /\ UNCHANGED stream
    /\ table' = IF dir = "rx" THEN [table EXCEPT !.rxFreq[p] = freq]
                ELSE [table EXCEPT !.txFreq[p] = freq]

\* GGWave::get_output_sample_format
get_output_sample_format(instance) == DefaultParameters.sampleFormatOut

GetOutputSampleFormat(s) ==
    Started("sync", s,
            [NewFrame("sync", "get_output_sample_format", s, <<>>, 0, 0, <<>>, <<>>)
                EXCEPT !.pc = "done",
                       !.res = OkN(get_output_sample_format(sessions[s].instance))])

\* the steps of a toggle call or size query in progress
ConfigStep(f) ==
    \/ Lock(f)
    \/ ToggleEnter(f)
    \/ ToggleReturn(f)
    \/ CalcEnter(f)
    \/ \E rc \in ReturnCodes : QueryReturn(f, rc)
    \/ Finish(f)
    \/ Resume(f)
    \/ Return(f)

\* Sessions built side by side, of GGWave and of AsyncGGWave, whose callers
\* change the protocol tables while other calls are in progress
NextConfig ==
    \/ /\ creates < MaxCreates
       /\ \E format \in Formats, async \in BOOLEAN, instance \in Slots :
            Build(format, async, instance)
    \/ \E kind \in Kinds, s \in SessIds, op \in {"toggle_rx", "toggle_tx"},
          pe \in ToggleInputs : StartToggle(kind, s, op, pe[1], pe[2])
    \/ \E kind \in Kinds, s \in SessIds : StartToggle(kind, s, "enable_all_rx", 0, TRUE)
    \/ \E s \in SessIds, dir \in {"rx", "tx"} : SetFreqStart(s, dir, AUDIBLE_NORMAL, FreqStart)
    \/ \E s \in SessIds : GetOutputSampleFormat(s)
    \/ \E s \in SessIds :
            StartEncode("bridge", s, "calc", <<1>>, AUDIBLE_NORMAL, DEFAULT_VOLUME, 0)
    \/ \E f \in FrameIds : ConfigStep(f)

SpecConfig == Init /\ [][NextConfig]_vars

\* ------------------------------------------------------------------- claims
\* the places of a frame where a native call is in flight
NativePcs == {"calc_native", "fill_native", "ndecode_native", "decode_native",
              "toggle_native"}

InFlight(s) ==
    {f \in FrameIds : /\ frames[f].kind = "bridge"
                      /\ frames[f].sess = s
                      /\ frames[f].pc \in NativePcs}

Workers(s) == {f \in FrameIds : frames[f].sess = s /\ frames[f].holdsRef}

\* C2: the handle of a successful init is freed exactly once, when the last
\* owner (handle of the bridge or worker) has let go and not before, never
\* while a native call on it is in flight; a failed init makes no Session
FreedOnceByLastOwner ==
    /\ \A s \in SessIds :
        /\ sessions[s].frees <= 1
        /\ sessions[s].state # "none" =>
              /\ sessions[s].refs = sessions[s].bridges + Cardinality(Workers(s))
              /\ (sessions[s].frees = 1) = (sessions[s].refs = 0)
              /\ (sessions[s].state = "freed") = (sessions[s].frees = 1)
        /\ sessions[s].frees = 1 => InFlight(s) = {}
    /\ \A h \in Slots :
        slots[h].used = (\E s \in SessIds : /\ sessions[s].state = "live"
                                            /\ sessions[s].instance = h)
    /\ lastCtor.res \notin {"none", "Ok"} => lastCtor.sess = 0

\* C2 witness: every handle of the bridge was dropped while a call was in
\* progress, and the worker of that call, the last owner, freed the Session
FreedByLastWorker ==
    \E s \in SessIds :
        /\ sessions[s].state = "freed"
        /\ sessions[s].freedOn = "worker"
        /\ sessions[s].frees = 1

\* the return code of the last native call of a frame
LastRc(fr) == fr.log[Len(fr.log)].rc

\* what an encode that runs alone returns for the inputs of frame fr, given
\* the return codes of its native calls
SolitaryEncode(fr) ==
    IF LastRc(fr) > 0 THEN OkData(Waveform(TxOf(fr))) ELSE OkData(<<>>)

\* C4: an AsyncGGWave::encode that returns a waveform returns the waveform of
\* its own (text, protocol, volume), whatever other calls on the same bridge
\* overlap with it
EncodeReturnsOwnWaveform ==
    \A f \in FrameIds :
        (/\ frames[f].kind = "bridge"
         /\ frames[f].op = "encode"
         /\ frames[f].pc = "done"
         /\ frames[f].res.tag = "Ok")
        => frames[f].res = SolitaryEncode(frames[f])

\* C4 witness: an encode returned its waveform while an encode of another
\* text, called earlier on the same Session, has not finished
EncodeOvertakesEncode ==
    \E f \in FrameIds, g \in FrameIds :
        /\ g < f
        /\ frames[f].kind = "bridge" /\ frames[g].kind = "bridge"
        /\ frames[f].op = "encode" /\ frames[g].op = "encode"
        /\ frames[f].sess = frames[g].sess
        /\ frames[f].text # frames[g].text
        /\ frames[f].pc = "done"
        /\ frames[f].res = OkData(Waveform(TxOf(frames[f])))
        /\ frames[g].pc \in {"spawned", "calc"}
        /\ ~frames[g].abandoned

\* C3: process_audio_chunk returns Ok(None) when the native streaming decode
\* returns 0, Ok(Some(payload)) only when it completed a message, and
\* Err(DecodeFailed) only for a negative code
ChunkResultFollowsNativeCode ==
    \A f \in FrameIds :
        (frames[f].op = "chunk" /\ frames[f].pc = "done" /\ frames[f].log # <<>>)
        => /\ LastRc(frames[f]) = 0 => frames[f].res = OkNone
           /\ (frames[f].res.tag = "Ok" /\ frames[f].res.some) => LastRc(frames[f]) > 0
           /\ frames[f].res.err = "DecodeFailed" => LastRc(frames[f]) < 0

\* the sync calls of the encode operations that have returned
SyncEncodeDone(f) ==
    /\ frames[f].kind = "sync"
    /\ frames[f].op \in {"calc", "encode_into"}
    /\ frames[f].pc = "done"

\* C5: a size query or a fill that ends with a code c <= 0 makes
\* calculate_encode_buffer_size and encode_into_buffer return
\* Err(EncodeFailed(c))
EncodeFaultReported ==
    \A f \in FrameIds :
        (SyncEncodeDone(f) /\ frames[f].log # <<>> /\ LastRc(frames[f]) <= 0)
        => frames[f].res = EncodeFailed(LastRc(frames[f]))

\* the framing-mode maximum of a live Session: its own fixed payload length
\* when it was created with one, otherwise the variable-length maximum
FramingMax(s) ==
    LET own == slots[sessions[s].instance].payloadLength
    IN IF own \in 1..MAX_LENGTH_FIXED THEN own ELSE MAX_LENGTH_VARIABLE

\* C6: an encode operation whose text is longer than the framing-mode maximum
\* of its Session returns Err(TextTooLong) and makes no native call
TextTooLongChecked ==
    \A f \in FrameIds :
        (/\ frames[f].op \in {"calc", "encode", "encode_into"}
         /\ frames[f].pc = "done"
         /\ sessions[frames[f].sess].state = "live"
         /\ Len(frames[f].text) > FramingMax(frames[f].sess))
        => /\ frames[f].res.err = "TextTooLong"
           /\ frames[f].log = <<>>

\* C7: a constructor given a fixed payload length above the fixed-length
\* maximum returns Err(InvalidParameter), calls no native init and leaves the
\* number of occupied slots unchanged
LengthRejectedLocally ==
    (/\ lastCtor.ctor \in {"new_with_params", "new_with_fixed_payload", "builder_fixed"}
     /\ lastCtor.length > MAX_LENGTH_FIXED)
    => /\ lastCtor.res = "InvalidParameter"
       /\ lastCtor.inits = 0
       /\ UsedSlots(slots) = lastCtor.used

\* the buffer the caller of encode_into_buffer passed
UserBuf(fr) == IF fr.kind = "bridge" THEN fr.ubuf ELSE fr.buf

\* C8: encode_into_buffer, sync or async, with a buffer shorter than the size
\* its query reported returns Err(BufferTooSmall) with that size as required
\* and the buffer's length as provided, makes no fill call and leaves the
\* buffer as it was
UndersizedBufferRejected ==
    \A f \in FrameIds :
        (/\ frames[f].op = "encode_into"
         /\ frames[f].pc = "done"
         /\ frames[f].log # <<>>
         /\ frames[f].log[1].rc > 0
         /\ Len(UserBuf(frames[f])) < frames[f].log[1].rc)
        => /\ frames[f].res = BufferTooSmall(frames[f].log[1].rc, Len(UserBuf(frames[f])))
           /\ Len(frames[f].log) = 1
           /\ UserBuf(frames[f]) = Zeros(Len(UserBuf(frames[f])))

\* C8 witness: the async encode_into_buffer has returned BufferTooSmall for a
\* buffer that is one byte short of the queried size
AsyncBufferOneShort ==
    \E f \in FrameIds :
        /\ frames[f].kind = "bridge"
        /\ frames[f].op = "encode_into"
        /\ frames[f].pc = "done"
        /\ frames[f].res.err = "BufferTooSmall"
        /\ frames[f].res.required = Len(Waveform(TxOf(frames[f])))
        /\ frames[f].res.provided + 1 = frames[f].res.required

\* C9: encode_into_buffer with a buffer of exactly the queried size never
\* returns BufferTooSmall, and an Ok(n) has 0 < n <= buffer.len()
ExactBufferAccepted ==
    \A f \in FrameIds :
        (/\ SyncEncodeDone(f)
         /\ frames[f].op = "encode_into"
         /\ frames[f].log # <<>>
         /\ frames[f].log[1].rc = Len(frames[f].buf))
        => /\ frames[f].res.err # "BufferTooSmall"
           /\ frames[f].res.tag = "Ok" =>
                (0 < frames[f].res.n /\ frames[f].res.n <= Len(frames[f].buf))

\* C10: decoding the waveform an encode of text T returned, on the same
\* Session and with a capacity of at least len(T), yields T
RoundTrip ==
    \A f \in FrameIds :
        (/\ frames[f].chained
         /\ frames[f].pc = "done"
         /\ Len(frames[f].buf) >= Len(frames[f].text))
        => frames[f].res = OkData(frames[f].text)

\* C11: the fill of an encode or encode_into_buffer call, sync or async, uses
\* the inputs of the size query that sized or validated its buffer, and no
\* other native call on the Session comes between that query and the fill
QueryAndFillDoNotDrift ==
    \A f \in FrameIds :
        (frames[f].kind \in {"sync", "bridge"} /\ frames[f].pc = "fill_native")
        => /\ slots[Slot(f)].tx = TxOf(frames[f])
           /\ ~frames[f].drift

\* C12: bridge calls on one Session are served in arrival order: of two calls
\* the one issued first (the lower frame) executes all its native calls before
\* any native call of the one issued later
BridgeCallsInArrivalOrder ==
    \A a \in FrameIds, b \in FrameIds :
        ( /\ a < b
          /\ frames[a].kind = "bridge" /\ frames[b].kind = "bridge"
          /\ frames[a].sess = frames[b].sess
          /\ ~frames[a].abandoned
          /\ frames[a].pc \in NativePcs )
        => frames[b].log = <<>>

\* C13: AsyncGGWave::clone makes no native init: the occupied slots stay as
\* they were, the new handle has the handle and the mutex of the Session it
\* was cloned from, and dropping a handle that is not the last frees nothing
CloneSharesTheSession ==
    [][\A s \in SessIds :
        /\ (sessions[s].bridges >= 1 /\ sessions'[s].bridges > sessions[s].bridges)
           => /\ slots' = slots
              /\ lastCtor' = lastCtor /\ creates' = creates
              /\ sessions'[s].instance = sessions[s].instance
              /\ sessions'[s].lock = sessions[s].lock
              /\ sessions'[s].state = "live" /\ sessions'[s].frees = 0
              /\ sessions'[s].refs = sessions[s].refs + 1
        /\ (sessions'[s].bridges >= 1 /\ sessions'[s].bridges < sessions[s].bridges)
           => /\ slots' = slots
              /\ sessions'[s].state = "live" /\ sessions'[s].frees = 0
              /\ sessions'[s].instance = sessions[s].instance
      ]_vars

\* C13 witness: a Session with as many handles as the model allows occupies
\* one native slot, and a call on it is inside the native library
ClonedHandlesOneSlot ==
    \E s \in SessIds :
        /\ sessions[s].state = "live"
        /\ sessions[s].bridges = MaxClones
        /\ UsedSlots(slots) = 1
        /\ InFlight(s) # {}

\* the live Sessions
Live == {s \in SessIds : sessions[s].state = "live"}

\* C14: the live Sessions never exceed the slots of the native library; a
\* create while every slot is occupied calls the native init once, returns
\* InitializationFailed and leaves no Session, and the existing Sessions keep
\* their handles; with a slot free again a create with valid parameters succeeds
SlotLimit ==
    /\ [](/\ Cardinality(Live) <= GGWAVE_MAX_INSTANCES
          /\ Cardinality(Live) = UsedSlots(slots)
          /\ \A s \in Live :
                /\ sessions[s].instance \in Slots
                /\ slots[sessions[s].instance].used
                /\ \A t \in Live : sessions[t].instance = sessions[s].instance => t = s)
    /\ [][creates' = creates + 1 =>
            IF Cardinality(Live) = GGWAVE_MAX_INSTANCES
            THEN /\ lastCtor'.res = "InitializationFailed"
                 /\ lastCtor'.inits = 1
                 /\ lastCtor'.sess = 0
                 /\ sessions' = sessions
                 /\ slots' = slots
            ELSE /\ lastCtor'.res = "Ok"
                 /\ lastCtor'.sess \notin Live
                 /\ sessions'[lastCtor'.sess].state = "live"
                 /\ \A s \in Live : sessions'[s] = sessions[s]
      ]_vars

\* C14 witness: four Sessions were live, a fifth create failed, one Session
\* was dropped and the create after that succeeded
CreateAfterDropSucceeds ==
    /\ creates = GGWAVE_MAX_INSTANCES + 2
    /\ Cardinality({s \in SessIds : sessions[s].state # "none"}) = GGWAVE_MAX_INSTANCES + 1
    /\ Cardinality(Live) = GGWAVE_MAX_INSTANCES
    /\ lastCtor.res = "Ok"
    /\ lastCtor.used = GGWAVE_MAX_INSTANCES - 1

\* the loop has been spawned
Spawned == stream.pc \in {"read", "decode", "send", "ended"}

\* the receiver misses nothing: what it got and what is queued is what was pushed
Lossless == (Spawned /\ stream.rx = "alive") => stream.got \o stream.queue = stream.sent

\* the step is a MessageReceiver operation that returned
Answered == stream'.last # stream.last \/ stream'.got # stream.got

\* a receive on a closed channel: the queued messages in order, then None
Drains ==
    (stream.pc = "ended" /\ Answered)
    => IF stream.queue # <<>>
       THEN /\ stream'.last.some
            /\ stream'.last.msg = Head(stream.queue)
            /\ stream'.queue = Tail(stream.queue)
       ELSE ~stream'.last.some

\* C15: a read of zero bytes ends the loop: no read and no decode follows, the
\* channel is closed, and the receiver gets the queued messages, then None
EndOfStreamEndsLoop ==
    /\ []((Spawned /\ stream.lastRead = "eof")
            => /\ stream.pc = "ended"
               /\ stream.frame = 0
               /\ \A f \in FrameIds : ~ActiveFrame(frames[f])
               /\ Lossless)
    /\ [][(Spawned /\ stream.lastRead = "eof")
            => /\ stream'.reads = stream.reads
               /\ calls' = calls
               /\ stream'.sent = stream.sent
               /\ Drains]_vars

\* C15 witness: the loop ended on a zero-byte read with a message queued, and
\* the receiver has taken that message and then got None from recv
DrainedAfterEof ==
    /\ stream.cause = "eof"
    /\ stream.sent # <<>>
    /\ stream.got = stream.sent
    /\ stream.last.op = "recv"
    /\ ~stream.last.some

\* C16: a failed read ends the loop without a retry and without an item for
\* the error: the channel is closed with the messages it had, which is what
\* the receiver finds after a clean end of stream
ReadErrorEndsLoop ==
    /\ []((Spawned /\ stream.lastRead = "error")
            => /\ stream.pc = "ended"
               /\ stream.frame = 0
               /\ \A f \in FrameIds : ~ActiveFrame(frames[f])
               /\ Lossless)
    /\ [][/\ (Spawned /\ stream'.lastRead = "error" /\ stream'.reads = stream.reads + 1)
             => /\ stream'.queue = stream.queue
                /\ stream'.sent = stream.sent
                /\ stream'.got = stream.got
                /\ stream'.rx = stream.rx
          /\ (Spawned /\ stream.lastRead = "error")
             => /\ stream'.reads = stream.reads
                /\ calls' = calls
                /\ stream'.sent = stream.sent
                /\ Drains]_vars

\* C16 witness: the loop ended on a failed read with a message queued, and the
\* receiver has taken that message and then got None from recv
DrainedAfterReadError ==
    /\ stream.cause = "error"
    /\ stream.sent # <<>>
    /\ stream.got = stream.sent
    /\ stream.last.op = "recv"
    /\ ~stream.last.some

\* C17: the channel never holds more than buffer_size messages; while it is
\* full the producer stays in its push, without a read or a decode, until the
\* consumer takes a message; and a push ends with the message in the channel
\* unless the receiver is gone
ChannelBounded ==
    /\ [](Spawned => (Len(stream.queue) <= stream.cap /\ Lossless))
    /\ [][/\ (/\ stream.pc = "send"
              /\ Len(stream.queue) >= stream.cap
              /\ Len(stream'.queue) >= stream.cap
              /\ stream'.rx = "alive")
             => /\ stream'.pc = "send" /\ stream'.msg = stream.msg
                /\ stream'.reads = stream.reads
                /\ calls' = calls
                /\ frames' = frames
          /\ (stream.pc = "send" /\ stream'.pc # "send")
             => \/ /\ stream'.queue = Append(stream.queue, stream.msg)
                   /\ stream'.sent = Append(stream.sent, stream.msg)
                \/ stream.rx = "dropped"]_vars

\* C17 witness: the producer is suspended in its push on a full channel
ProducerWaitsOnFullChannel ==
    /\ stream.pc = "send"
    /\ stream.rx = "alive"
    /\ stream.cap > 0
    /\ Len(stream.queue) = stream.cap

\* C18: once the MessageReceiver is dropped, the push the loop attempts fails
\* and the loop ends there, with no read and no decode after the failed push
PushAfterDropEndsLoop ==
    /\ [](stream.cause = "closed" => (stream.pc = "ended" /\ stream.rx = "dropped"))
    /\ [][(stream.pc = "send" /\ stream.rx = "dropped" /\ stream' # stream)
            => /\ stream'.pc = "ended"
               /\ stream'.cause = "closed"
               /\ stream'.reads = stream.reads
               /\ stream'.sent = stream.sent
               /\ stream'.queue = stream.queue
               /\ calls' = calls
               /\ frames' = frames]_vars

\* C18 witness: the loop has ended on a push that failed
EndedOnFailedPush ==
    /\ stream.pc = "ended"
    /\ stream.cause = "closed"
    /\ stream.rx = "dropped"

\* C19: once the MessageReceiver is dropped the loop ends within one
\* read-cycle: it makes at most one more read, whatever the chunks decode to
EndsWithinOneReadOfDrop == stream.late <= 1

\* C20: recv_timeout returns None only with nothing queued, and a wait that
\* timed out leaves the producer and the channel as they were; every receive
\* operation returns the oldest message pushed and not yet returned
TimeoutLosesNothing ==
    /\ [](Lossless)
    /\ [][Answered
            => IF stream.queue = <<>>
               THEN /\ ~stream'.last.some
                    /\ stream' = [stream EXCEPT !.last = stream'.last]
               ELSE /\ stream'.last.some
                    /\ stream'.last.msg = Head(stream.queue)
                    /\ stream'.got = Append(stream.got, Head(stream.queue))
                    /\ stream'.pc = stream.pc]_vars

\* C20 witness: a recv_timeout has timed out on an empty channel after a first
\* message was received, the loop went on and has pushed the next message
PushedAfterTimeout ==
    /\ stream.last.op = "recv_timeout"
    /\ ~stream.last.some
    /\ stream.pc \in {"read", "decode", "send"}
    /\ stream.got # <<>>
    /\ stream.queue # <<>>

\* C21: the worker of an abandoned bridge call runs on to its end as any other
\* worker, its result goes nowhere, the mutex is free again when it ends, and
\* the mutex is only ever held by a worker that can take its next step, so the
\* calls that follow are not held up
AbandonedWorkerCompletes ==
    /\ [](\A s \in SessIds :
            sessions[s].lock # 0
            => /\ frames[sessions[s].lock].kind = "bridge"
               /\ frames[sessions[s].lock].sess = s
               /\ frames[sessions[s].lock].pc \notin {"spawned", "joined", "done"}
               /\ ENABLED Step(sessions[s].lock))
    /\ [][\A f \in FrameIds :
            (frames[f].abandoned /\ frames'[f] # frames[f])
            => IF frames[f].pc = "ret"
               THEN /\ frames'[f] = GoneFrame
                    /\ sessions'[frames[f].sess].lock = 0
               ELSE /\ frames'[f].abandoned
                    /\ frames'[f].pc \notin {"joined", "done", "returned"}
                    /\ frames'[f].sess = frames[f].sess]_vars

\* C21 witness: the worker of an abandoned call has completed its native call
\* and is about to end, while a later call on the Session waits for the mutex
AbandonedWorkerRanOn ==
    \E a \in FrameIds, b \in FrameIds :
        /\ a < b
        /\ frames[a].abandoned
        /\ frames[a].pc = "ret"
        /\ frames[a].log # <<>>
        /\ frames[b].kind = "bridge"
        /\ frames[b].sess = frames[a].sess
        /\ frames[b].pc = "spawned"

\* C22: every native call made for the bridge runs on a blocking worker: the
\* calls of the operations, and also ggwave_free when the last owner of a
\* bridged Session lets go
NativeCallsOnWorkers ==
    \A s \in SessIds :
        (sessions[s].wrapped /\ sessions[s].frees > 0) => sessions[s].freedOn = "worker"

\* the whole-waveform decodes that have returned
WholeDecodeDone(f) ==
    /\ frames[f].op \in {"decode", "decode_to_string", "decode_binary"}
    /\ frames[f].pc = "done"
    /\ frames[f].log # <<>>

\* C23: decode, decode_to_string and decode_binary return
\* Err(DecodeFailed(code)) with the native code when the waveform holds no
\* framed payload, and never Ok with an empty payload for such a waveform
NoMessageIsDecodeFailed ==
    \A f \in FrameIds :
        (WholeDecodeDone(f) /\ ~Framed(frames[f].wave))
        => /\ LastRc(frames[f]) < 0
           /\ frames[f].res = DecodeFailed(LastRc(frames[f]))

\* C23 witness: decode_binary of a waveform without a frame has returned
\* DecodeFailed with the code of the native bounded decode
UnframedWaveformRejected ==
    \E f \in FrameIds :
        /\ WholeDecodeDone(f)
        /\ frames[f].op = "decode_binary"
        /\ frames[f].wave # <<>>
        /\ ~Framed(frames[f].wave)
        /\ frames[f].res = DecodeFailed(LastRc(frames[f]))

\* C24: a decode operation with an output capacity c returns no payload
\* longer than c; a message longer than c makes it return an error: it does
\* not panic, and the native call reports no more bytes than the buffer holds
PayloadWithinCapacity ==
    \A f \in FrameIds :
        (/\ frames[f].op \in {"decode", "decode_to_string", "decode_binary", "chunk"}
         /\ frames[f].pc = "done"
         /\ frames[f].log # <<>>)
        => /\ frames[f].res.tag # "Panic"
           /\ frames[f].res.tag = "Ok" => Len(frames[f].res.data) <= Len(frames[f].buf)
           /\ LastRc(frames[f]) <= Len(frames[f].buf)

\* the volume is outside MIN_VOLUME..MAX_VOLUME
VolumeOutOfRange(volume) == volume < MIN_VOLUME \/ volume > MAX_VOLUME

EncodeOkWaveform ==
    \A f \in FrameIds :
        (/\ frames[f].op = "encode"
         /\ ~frames[f].chained
         /\ frames[f].pc = "done"
         /\ frames[f].res.tag = "Ok")
        => /\ frames[f].res.data # <<>>
           /\ Len(frames[f].res.data) = LastRc(frames[f])
           /\ Len(frames[f].res.data) <= frames[f].log[1].rc

\* the task-failure error of a bridge operation
TaskFailure(op) ==
    IF op \in {"calc", "encode", "encode_into"} THEN EncodeFailed(0 - 1)
    ELSE DecodeFailed(0 - 1)

\* C30: a bridge call returns only after its worker has ended, with the
\* worker's result; when the worker panicked it returns the task-failure error
\* of its family, and the worker's mutex is free again
BridgeReturnsWorkerResult ==
    /\ [](\A f \in FrameIds :
            frames[f].kind = "bridge"
            => /\ frames[f].pc = "done" => frames[f].res.tag \in {"Ok", "Err"}
               /\ frames[f].pc \in {"joined", "done"}
                    => sessions[frames[f].sess].lock # f)
    /\ [][\A f \in FrameIds :
            (frames[f].kind = "bridge" /\ frames[f].pc # "done" /\ frames'[f].pc = "done")
            => /\ frames[f].pc = "joined"
               /\ frames[f].res.tag = "Panic" => frames'[f].res = TaskFailure(frames[f].op)
               /\ frames[f].res.tag = "Err" => frames'[f].res = frames[f].res
               /\ (frames[f].res.tag = "Ok" /\ frames[f].op # "encode_into")
                    => frames'[f].res = frames[f].res]_vars

\* C30 witness: the worker of an async process_audio_chunk panicked on a
\* payload longer than its buffer and the call has returned DecodeFailed(-1)
WorkerPanicReported ==
    \E f \in FrameIds :
        /\ frames[f].kind = "bridge"
        /\ frames[f].op = "chunk"
        /\ frames[f].pc = "done"
        /\ LastRc(frames[f]) > Len(frames[f].buf)
        /\ frames[f].res = DecodeFailed(0 - 1)
        /\ sessions[frames[f].sess].lock = 0

\* the step in which the native toggle call of frame f ends
ToggleApplied(f) == frames[f].pc = "toggle_native" /\ frames'[f].pc # "toggle_native"

\* C25: a toggle_rx_protocol / toggle_tx_protocol made through any Session
\* sets the flag of its protocol in the one process-wide table to the value
\* asked for and changes nothing else: no other flag, no slot and no Session;
\* no other step (a constructor, a call on another Session) changes a flag, so
\* every live and every later Session sees it; and the native toggle can end
\* whatever calls the other Sessions have in flight
TogglesAreProcessWide ==
    /\ [](\A f \in FrameIds : frames[f].pc = "toggle_native" => ENABLED ToggleReturn(f))
    /\ [][/\ \A f \in FrameIds :
                ToggleApplied(f) =>
                    LET d == Dir(frames[f])
                        p == frames[f].protocol
                        e == frames[f].enabled
                    IN /\ (IF d = "rx" THEN table'.rx[p] ELSE table'.tx[p]) = e
                       /\ \A q \in ProtocolIds :
                            /\ (q # p \/ d # "rx") => table'.rx[q] = table.rx[q]
                            /\ (q # p \/ d # "tx") => table'.tx[q] = table.tx[q]
                       /\ slots' = slots
                       /\ sessions' = sessions
          /\ (\A f \in FrameIds : ~ToggleApplied(f)) =>
                table'.rx = table.rx /\ table'.tx = table.tx]_vars

\* a reception toggle made through one Session has disabled a protocol while
\* an older call of another Session is inside its native call
ToggledDuringForeignCall ==
    \E f, g \in FrameIds :
        /\ frames[f].op = "toggle_rx"
        /\ frames[f].log # <<>>
        /\ ~frames[f].enabled
        /\ ~table.rx[frames[f].protocol]
        /\ frames[g].pc = "calc_native"
        /\ frames[g].sess # frames[f].sess
        /\ g < f

\* the native toggles enable_all_rx_protocols is to make, in order
EnableEachOnce == [i \in 1..COUNT |-> [call |-> "rx_on", rc |-> i - 1]]

\* C26: enable_all_rx_protocols issues exactly one reception enable for each
\* protocol id 0..COUNT-1 and none outside that range; when it returns and no
\* other toggle came in between, every reception protocol is enabled whatever
\* it was before; none of its steps changes a transmission toggle or a start
\* frequency
EnableAllRxEnablesEach ==
    /\ [](\A f \in FrameIds :
            /\ frames[f].op = "enable_all_rx"
            /\ frames[f].pc \in {"ret", "joined", "done"}
            => frames[f].log = EnableEachOnce)
    /\ [][\A f \in FrameIds :
            frames[f].op = "enable_all_rx" /\ ToggleApplied(f) =>
                /\ table'.tx = table.tx
                /\ table'.rxFreq = table.rxFreq
                /\ table'.txFreq = table.txFreq
                /\ (frames'[f].pc # "toggle" /\ ~frames'[f].drift) =>
                        \A p \in ProtocolIds : table'.rx[p]]_vars

\* enable_all_rx_protocols has returned with every reception protocol enabled
\* after an earlier call had disabled one, and the custom transmission
\* protocols are still disabled
EnabledAllAfterDisable ==
    \E f, g \in FrameIds :
        /\ frames[f].op = "enable_all_rx"
        /\ frames[f].pc = "done"
        /\ ~frames[f].drift
        /\ frames[g].log = <<[call |-> "rx_off", rc |-> AUDIBLE_NORMAL]>>
        /\ \A p \in ProtocolIds : table.rx[p]
        /\ ~table.tx[CUSTOM_0]

\* C27: get_output_sample_format returns the output sample format the
\* Session was constructed with
GetterReportsSessionFormat ==
    \A f \in FrameIds :
        /\ frames[f].op = "get_output_sample_format"
        /\ frames[f].pc = "done"
        /\ sessions[frames[f].sess].state = "live"
        => frames[f].res.n = slots[Slot(f)].sampleFormatOut

\* C38: is_valid_instance is true of the handle of every Session a
\* constructor has returned and false of every handle a constructor treats as
\* a failed init (a negative one)
ValidInstanceAgreesWithInit ==
    /\ \A s \in SessIds :
            sessions[s].state = "live" => is_valid_instance(sessions[s].instance)
    /\ \A h \in InitOutcomes(slots, DefaultParameters.payloadLength) :
            h < 0 => ~is_valid_instance(h)

\* C32: a fault of process_audio_chunk in the background loop pushes nothing
\* and does not end the loop, which goes on to its next read; the loop ends
\* only on a zero-byte read, a read error or a failed push
DecodeFaultKeepsLoop ==
    /\ [](stream.pc = "ended" => stream.cause \in {"eof", "error", "closed"})
    /\ [][(/\ stream.pc = "decode"
           /\ stream'.pc # "decode"
           /\ frames[stream.frame].res.tag # "Ok")
          => /\ stream'.pc = "read"
             /\ stream'.queue = stream.queue
             /\ stream'.sent = stream.sent
             /\ stream'.msg = <<>>]_vars

\* the loop is decoding its second chunk after the first one gave a fault
ReadOnAfterDecodeFault ==
    /\ stream.lastDecode = "fault"
    /\ stream.pc = "decode"
    /\ stream.reads = 2
    /\ stream.sent = <<>>

\* q is p followed by more
IsPrefix(p, q) == Len(p) <= Len(q) /\ Take(q, Len(p)) = p

CallbackStreamStopsAtFirstError ==
    /\ [](stream.pc = "returned" =>
            /\ stream.result.tag = "Ok" <=> stream.lastRead = "eof"
            /\ stream.lastRead = "error" <=> stream.result = IoError
            /\ stream.lastDecode = "fault" =>
                    stream.result.tag = "Err" /\ stream.lastRead = "data")
    /\ [](stream.pc \in {"cb_read", "cb_decode"} =>
            stream.lastRead # "error" /\ stream.lastRead # "eof"
                /\ stream.lastDecode # "fault")
    /\ [][/\ stream.pc = "returned" => stream' = stream /\ calls' = calls
          /\ (stream.pc = "cb_decode" /\ stream'.pc # "cb_decode") =>
                LET r == frames[stream.frame].res
                IN CASE r.tag # "Ok" ->
                            /\ stream'.pc = "returned"
                            /\ stream'.result = r
                            /\ stream'.called = stream.called
                     [] r.some ->
                            /\ stream'.called = Append(stream.called, r.data)
                            /\ \/ stream'.pc = "cb_read"
                               \/ stream'.pc = "returned" /\ stream'.result.tag = "Err"
                     [] OTHER ->
                            /\ stream'.pc = "cb_read"
                            /\ stream'.called = stream.called]_vars

\* process_audio_stream has returned the error of its second chunk after its
\* callback took the payload of the first
ReturnedDecodeErrorAfterCallback ==
    /\ stream.pc = "returned"
    /\ stream.result.err = "DecodeFailed"
    /\ Len(stream.called) = 1
    /\ stream.reads = 2

\* C35: the chunks handed to the streaming decoder by the background loop and
\* by process_audio_stream are the byte ranges the reads returned, in order:
\* what was fed is a prefix of what was read, and the chunk being decoded has
\* between 1 and chunk_size bytes and is the range of the last read
ChunksAreTheBytesRead ==
    /\ IsPrefix(stream.fed, stream.read)
    /\ stream.pc \in {"decode", "cb_decode"} =>
            /\ Len(frames[stream.frame].wave) >= 1
            /\ Len(frames[stream.frame].wave) <= ChunkSize
            /\ stream.fed = stream.read
            /\ IsPrefix(frames[stream.frame].wave, stream.buffer)

\* a loop is decoding a short second chunk read over a longer first one
ShortChunkAfterLong ==
    /\ stream.pc \in {"decode", "cb_decode"}
    /\ stream.reads = 2
    /\ Len(frames[stream.frame].wave) = 1
    /\ Len(stream.read) = ChunkSize + 1

\* C31: between the start and the end of a background loop only the loop's
\* own chunks are fed to the streaming decoder of its Session: once the loop
\* has fed a chunk and until it ends, a chunk inside the native streaming
\* decode of that Session is the loop's
OneSourcePerDecoder ==
    \A f \in FrameIds :
        (/\ stream.pc \in {"read", "decode", "send"}
         /\ stream.fed # <<>>
         /\ frames[f].op = "chunk"
         /\ frames[f].sess = stream.sess
         /\ frames[f].pc = "decode_native")
        => f = stream.frame

\* the loop is not inside a process_audio_chunk call
LoopOutsideDecode == stream.pc \in {"read", "send"}

\* C34: while the background loop waits for a read or for room in the channel
\* it does not hold the mutex of the Session: the mutex is free or held by the
\* running worker of another caller, and a waiting worker can take a free one
LoopHoldsLockOnlyInDecode ==
    LoopOutsideDecode =>
        LET lock == sessions[stream.sess].lock
        IN /\ lock # 0 => /\ frames[lock].kind = "bridge"
                          /\ frames[lock].sess = stream.sess
                          /\ frames[lock].pc \notin {"free", "spawned", "joined", "done"}
           /\ \A f \in FrameIds :
                (frames[f].pc = "spawned" /\ frames[f].sess = stream.sess /\ lock = 0)
                    => ENABLED Lock(f)

\* the loop has decoded a payload and waits to push it while the worker of
\* another handle's encode is inside its native call under the mutex
EncodeRunsWhileLoopWaits ==
    /\ stream.pc = "send"
    /\ \E f \in FrameIds :
        /\ frames[f].op = "encode"
        /\ frames[f].pc \in NativePcs
        /\ sessions[stream.sess].lock = f

\* a bridge call that has not completed yet
Pending(f) == frames[f].kind = "bridge" /\ frames[f].pc # "done"

\* C37: under fair scheduling, and with every native call returning, every
\* call made through a handle of the bridge or by the background loop
\* completes: no worker leaves with the mutex held, whatever it returns
BridgeCallsComplete == \A f \in FrameIds : Pending(f) ~> ~Pending(f)

\* a call has completed on a Session after calls on it had returned
\* TextTooLong or DecodeFailed
CompletedAfterErrors ==
    \E f, g \in FrameIds :
        /\ f < g
        /\ frames[f].sess = frames[g].sess
        /\ frames[f].pc = "done"
        /\ frames[f].res.err \in {"TextTooLong", "DecodeFailed"}
        /\ frames[g].kind = "bridge"
        /\ frames[g].pc = "done"

\* every size query of the call reported the same code
QueriesAgree(fr) ==
    \A i, j \in 1..Len(fr.log) :
        (fr.log[i].call = "query" /\ fr.log[j].call = "query") => fr.log[i].rc = fr.log[j].rc

\* what GGWave::encode_into_buffer returns for the text and the buffer length
\* of frame fr when its native calls report the codes of the frame's log
SyncEncodeInto(fr) ==
    IF Len(fr.text) > max_length(0)
    THEN TextTooLong(Len(fr.text), max_length(0))
    ELSE LET q == QueryResult(fr.log[1].rc)
         IN CASE q.tag = "Err" -> q
              [] TooSmall(Len(fr.ubuf), q.n) -> BufferTooSmall(q.n, Len(fr.ubuf))
              [] OTHER -> FillResult(LastRc(fr))

\* the buffer GGWave::encode_into_buffer leaves behind in that case
SyncBuffer(fr) ==
    IF SyncEncodeInto(fr).tag = "Ok" /\ SyncEncodeInto(fr).n > 0
    THEN Overwrite(Zeros(Len(fr.ubuf)), Waveform(TxOf(fr)))
    ELSE Zeros(Len(fr.ubuf))

\* the encode_into_buffer part of C39
EncodeIntoRefines(fr) ==
    (fr.op = "encode_into" /\ QueriesAgree(fr)) =>
        fr.res = SyncEncodeInto(fr) /\ fr.ubuf = SyncBuffer(fr)

\* the decode part of C39
DecodeRefines(fr) ==
    /\ (fr.op = "decode_to_string" /\ fr.log # <<>>) =>
            fr.res = NDecodeResult(fr.op, LastRc(fr), fr.buf)
    /\ fr.op = "chunk" => fr.res = ChunkResult(LastRc(fr), fr.buf)

\* C39: without concurrent callers a call of AsyncGGWave returns what the
\* call of GGWave returns for the same input and the same native codes:
\* encode_into_buffer the same count with the same buffer contents,
\* decode_to_string and process_audio_chunk the same Ok / Err value
AsyncRefinesSync ==
    \A f \in FrameIds :
        (frames[f].kind = "bridge" /\ frames[f].pc = "done")
            => EncodeIntoRefines(frames[f]) /\ DecodeRefines(frames[f])
====
